---- MODULE Spec2Model ----
(***************************************************************************)
(* Model of the market time-series core of the repository: the canonical   *)
(* bar builders (process_stock_data_all, process_stock_data_last) and the  *)
(* trading-calendar resamplers (resample_with_trading_hours, resample_df). *)
(*                                                                         *)
(* The repository holds several near-duplicate implementations; each one   *)
(* is modelled by its own operator and its own action, named after the     *)
(* file it lives in:                                                       *)
(*   Thx        src/src/thx.py                                             *)
(*   ThxHelper  src/src/thx_helper.py                                      *)
(*   Tool       src/src/thx/thx_helper.py  (used by src/src/thx/thx_tool)  *)
(*   Ta         src/src/ta.py              (resample_df)                   *)
(*   Legacy     src/thx.py                                                 *)
(***************************************************************************)
EXTENDS Integers, Sequences, FiniteSets, TLC

VARIABLES
    df,               \* resampler input: sequence of bars (a DataFrame's rows)
    period,           \* resampler input: the period token
    trading_periods,  \* resampler input: the trading-hours string (window tokens)
    market,           \* resample_df input: the market discriminator
    data,             \* builder input: the decoded payload (a dict)
    out               \* the result of the one call made: who ran, how it ended, its rows

vars == <<df, period, trading_periods, market, data, out>>

(***************************************************************************)
(* Bounds of the model.                                                    *)
(***************************************************************************)
MaxBars == 3        \* bars in a resampler input
MaxDay == 1         \* intraday inputs span days BaseDay .. BaseDay + MaxDay
MaxCalDay == 4      \* daily inputs span days BaseDay .. BaseDay + MaxCalDay

(***************************************************************************)
(* Timestamps.  A text timestamp (the 't' / 'date' column before           *)
(* pd.to_datetime) is a civil record [y, mo, d, hh, mi]; a pandas          *)
(* Timestamp is the number of minutes since 1970-01-01 00:00.              *)
(***************************************************************************)
MinPerDay == 24 * 60

\* days since 1970-01-01 of the civil date y-m-d (proleptic Gregorian)
\* (the year counted from March, yy, and the month counted from March, mp)
DayOfEra(yoe, doy) == yoe * 365 + yoe \div 4 - yoe \div 100 + doy

DaysFromShifted(yy, mp, d) ==
    (yy \div 400) * 146097 + DayOfEra(yy % 400, (153 * mp + 2) \div 5 + d - 1) - 719468

DaysFromCivil(y, m, d) ==
    DaysFromShifted(IF m <= 2 THEN y - 1 ELSE y, IF m > 2 THEN m - 3 ELSE m + 9, d)

\* the civil date [y, mo, d] of a day number
\* (era, day of era, year of era, day of year and month counted from March)
CivilOfMonth(y, m, d) == [y |-> IF m <= 2 THEN y + 1 ELSE y, mo |-> m, d |-> d]

CivilOfMp(y, doy, mp) ==
    CivilOfMonth(y, IF mp < 10 THEN mp + 3 ELSE mp - 9, doy - (153 * mp + 2) \div 5 + 1)

CivilOfDoy(y, doy) == CivilOfMp(y, doy, (5 * doy + 2) \div 153)

CivilOfYoe(era, doe, yoe) ==
    CivilOfDoy(yoe + era * 400, doe - (365 * yoe + yoe \div 4 - yoe \div 100))

CivilOfDoe(era, doe) ==
    CivilOfYoe(era, doe,
               (doe - doe \div 1460 + doe \div 36524 - doe \div 146096) \div 365)

CivilFromDays(n) == CivilOfDoe((n + 719468) \div 146097, (n + 719468) % 146097)

\* pd.to_datetime of one text timestamp
ToDatetime(s) == DaysFromCivil(s.y, s.mo, s.d) * MinPerDay + s.hh * 60 + s.mi

DayOf(t) == t \div MinPerDay
TimeOfDay(t) == t % MinPerDay          \* DatetimeIndex.time, in minutes
Weekday(day) == (day + 3) % 7          \* Monday = 0; 1970-01-01 was a Thursday

\* last day of the month / of the year that holds `day`
MonthEndOf(c) ==
    DaysFromCivil(IF c.mo = 12 THEN c.y + 1 ELSE c.y, IF c.mo = 12 THEN 1 ELSE c.mo + 1, 1) - 1

MonthEnd(day) == MonthEndOf(CivilFromDays(day))

YearEnd(day) == DaysFromCivil(CivilFromDays(day).y + 1, 1, 1) - 1

\* first Monday on or after `day` (the label of a 'w-mon' bucket)
WeekEnd(day) == day + ((7 - Weekday(day)) % 7)

(***************************************************************************)
(* Period tokens and pandas frequencies.                                   *)
(***************************************************************************)
\* PERIOD_MAP of src/src/thx.py
PERIOD_MAP_Thx ==
    ("5" :> "5min") @@ ("15" :> "15min") @@ ("20" :> "20min") @@ ("30" :> "30min")
    @@ ("d" :> "d") @@ ("w" :> "w-mon") @@ ("m" :> "m") @@ ("y" :> "y")

\* PERIOD_MAP of src/src/thx_helper.py
PERIOD_MAP_ThxHelper ==
    ("5m" :> "5min") @@ ("15m" :> "15min") @@ ("20m" :> "20min") @@ ("30m" :> "30min")
    @@ ("d" :> "d") @@ ("w" :> "w-mon") @@ ("m" :> "m") @@ ("y" :> "y")

\* PERIOD_MAP of src/src/ta.py
PERIOD_MAP_Ta ==
    ("1m" :> "1min") @@ ("5m" :> "5min") @@ ("15m" :> "15min") @@ ("20m" :> "20min")
    @@ ("30m" :> "30min")
    @@ ("d" :> "d") @@ ("w" :> "w-mon") @@ ("m" :> "m") @@ ("y" :> "y")

\* the tuple ('5', '15', '20', '30') every resampler tests the period against
IntradayTokens == {"5", "15", "20", "30"}

\* str.lower() on the period tokens of the model
Lower(p) == IF p = "D" THEN "d" ELSE IF p = "W" THEN "w" ELSE p

\* minutes per bucket of the minute frequencies
MinuteFreq == ("1min" :> 1) @@ ("5min" :> 5) @@ ("15min" :> 15) @@ ("20min" :> 20)
              @@ ("30min" :> 30)

\* the label of the bucket a Timestamp falls in: minute and day buckets are closed
\* and labelled on the left (counted from midnight), week / month / year buckets
\* are closed and labelled on the right (the Monday, the month end, the year end)
Label(freq, t) ==
    IF freq \in DOMAIN MinuteFreq THEN (t \div MinuteFreq[freq]) * MinuteFreq[freq]
    ELSE IF freq = "d" THEN DayOf(t) * MinPerDay
    ELSE IF freq = "w-mon" THEN WeekEnd(DayOf(t)) * MinPerDay
    ELSE IF freq = "m" THEN MonthEnd(DayOf(t)) * MinPerDay
    ELSE YearEnd(DayOf(t)) * MinPerDay

\* the label that follows `lab` in the bin grid of the frequency
NextLabel(freq, lab) ==
    IF freq \in DOMAIN MinuteFreq THEN lab + MinuteFreq[freq]
    ELSE IF freq = "d" THEN lab + MinPerDay
    ELSE IF freq = "w-mon" THEN lab + 7 * MinPerDay
    ELSE IF freq = "m" THEN MonthEnd(DayOf(lab) + 1) * MinPerDay
    ELSE YearEnd(DayOf(lab) + 1) * MinPerDay

RECURSIVE BinsFrom(_, _, _)
BinsFrom(freq, lab, last) ==
    IF lab > last THEN <<>> ELSE <<lab>> \o BinsFrom(freq, NextLabel(freq, lab), last)

\* every bin label from the first observation's bucket to the last one's
BinsByStep(first, last, step) ==
    [i \in 1 .. ((last - first) \div step + 1) |-> first + (i - 1) * step]

Bins(freq, first, last) ==
    IF freq \in DOMAIN MinuteFreq THEN BinsByStep(first, last, MinuteFreq[freq])
    ELSE IF freq = "d" THEN BinsByStep(first, last, MinPerDay)
    ELSE BinsFrom(freq, first, last)

(***************************************************************************)
(* Frames and aggregation.  A frame row is                                 *)
(*   [t, o, h, l, c, v, src]                                               *)
(* t a Timestamp, o/h/l/c numbers or NaN, v a number; src is an auxiliary  *)
(* field: the Timestamps of the input bars the row was built from.         *)
(***************************************************************************)
NaN == -1

RECURSIVE SeqMax(_)
SeqMax(s) == IF Len(s) = 1 THEN s[1]
             ELSE LET m == SeqMax(Tail(s)) IN IF s[1] >= m THEN s[1] ELSE m

RECURSIVE SeqMin(_)
SeqMin(s) == IF Len(s) = 1 THEN s[1]
             ELSE LET m == SeqMin(Tail(s)) IN IF s[1] <= m THEN s[1] ELSE m

RECURSIVE SeqSum(_)
SeqSum(s) == IF s = <<>> THEN 0 ELSE s[1] + SeqSum(Tail(s))

\* 'first' / 'last' / 'max' / 'min' of an empty group are NaN, 'sum' of it is 0
AggFirst(s) == IF s = <<>> THEN NaN ELSE s[1]
\* mutant of AggLast: 'c' aggregated with 'first' instead of 'last'
AggLast_TakesFirst(s) == IF s = <<>> THEN NaN ELSE s[1]
AggLast(s) == IF s = <<>> THEN NaN ELSE s[Len(s)]
AggMax(s) == IF s = <<>> THEN NaN ELSE SeqMax(s)
AggMin(s) == IF s = <<>> THEN NaN ELSE SeqMin(s)
AggSum(s) == SeqSum(s)

\* .agg({'o': 'first', 'h': 'max', 'l': 'min', 'c': 'last', 'v': 'sum'}) of one bin
Agg(label, members) ==
    [t   |-> label,
     o   |-> AggFirst([i \in 1 .. Len(members) |-> members[i].o]),
     h   |-> AggMax([i \in 1 .. Len(members) |-> members[i].h]),
     l   |-> AggMin([i \in 1 .. Len(members) |-> members[i].l]),
     c   |-> AggLast([i \in 1 .. Len(members) |-> members[i].c]),
     v   |-> AggSum([i \in 1 .. Len(members) |-> members[i].v]),
     src |-> {members[i].t : i \in 1 .. Len(members)}]

\* frame.resample(freq).agg(...) of a non-empty frame sorted by t: one row per
\* bin of the grid, the empty bins included
BinMembers(frame, freq, lab) ==
    LET InBin(b) == Label(freq, b.t) = lab
    IN  SelectSeq(frame, InBin)

ResampleBins(frame, freq, bins) ==
    [i \in 1 .. Len(bins) |-> Agg(bins[i], BinMembers(frame, freq, bins[i]))]

Resample(frame, freq) ==
    ResampleBins(frame, freq,
                 Bins(freq, Label(freq, frame[1].t), Label(freq, frame[Len(frame)].t)))

\* DataFrame.dropna(): drops every row that holds a NaN
DropNa(rows) ==
    LET Full(r) == r.o # NaN /\ r.h # NaN /\ r.l # NaN /\ r.c # NaN
    IN  SelectSeq(rows, Full)

RECURSIVE InsertRow(_, _)
InsertRow(sorted, r) ==
    IF sorted = <<>> THEN <<r>>
    ELSE IF r.t < sorted[1].t THEN <<r>> \o sorted
    ELSE <<sorted[1]>> \o InsertRow(Tail(sorted), r)

RECURSIVE SortIndex(_)
\* DataFrame.sort_index(): ascending by t
SortIndex(rows) ==
    IF rows = <<>> THEN <<>>
    ELSE InsertRow(SortIndex(SubSeq(rows, 1, Len(rows) - 1)), rows[Len(rows)])

\* df.copy(); pd.to_datetime on the timestamp column; set_index; sort_index
Prepare(frame) ==
    SortIndex([i \in 1 .. Len(frame) |->
        [t |-> ToDatetime(frame[i].t), o |-> frame[i].o, h |-> frame[i].h,
         l |-> frame[i].l, c |-> frame[i].c, v |-> frame[i].v,
         src |-> {ToDatetime(frame[i].t)}]])

(***************************************************************************)
(* Trading hours.  The trading-hours string is the sequence of its         *)
(* comma-separated windows; a window is the sequence of its '-'-separated   *)
(* parts, a part the sequence of its digits ("0930-1130" is                *)
(* << <<0,9,3,0>>, <<1,1,3,0>> >>).  The empty string is << >>.            *)
(***************************************************************************)
Win(a, b) == <<a, b>>

\* whether `start_str, end_str = period.strip().split('-')` and the two
\* datetime.time(int(s[:2]), int(s[2:])) calls succeed on a window of 4-digit parts
Unpacks(w) == Len(w) = 2
FourChars(w) == Len(w[1]) = 4 /\ Len(w[2]) = 4
ValidTime(p) == 10 * p[1] + p[2] <= 23 /\ 10 * p[3] + p[4] <= 59

\* datetime.time(int(s[:2]), int(s[2:])) as minutes of the day
TimeOf(p) == (10 * p[1] + p[2]) * 60 + 10 * p[3] + p[4]

\* the windows a lenient parse_trading_hours keeps (src/src/thx.py,
\* src/src/thx_helper.py): a malformed window is logged and skipped
WellFormed(w) == Unpacks(w) /\ FourChars(w) /\ ValidTime(w[1]) /\ ValidTime(w[2])

RECURSIVE LenientRanges(_)
LenientRanges(ws) ==
    IF ws = <<>> THEN <<>>
    ELSE (IF WellFormed(ws[1]) THEN << <<TimeOf(ws[1][1]), TimeOf(ws[1][2])>> >> ELSE <<>>)
         \o LenientRanges(Tail(ws))

parse_trading_hours_Thx(trading_hours) == LenientRanges(trading_hours)

\* src/src/ta.py: any malformed window raises ValueError
parse_trading_hours_Ta(trading_hours) ==
    IF \A i \in 1 .. Len(trading_hours) : WellFormed(trading_hours[i])
    THEN [raised |-> FALSE, ranges |-> LenientRanges(trading_hours)]
    ELSE [raised |-> TRUE, ranges |-> <<>>]

\* mask = (index.time >= start_time) & (index.time <= end_time); df_copy[mask]
InWindow(t, range) == TimeOfDay(t) >= range[1] /\ TimeOfDay(t) <= range[2]

WindowFrame(frame, range) ==
    LET Keep(b) == InWindow(b.t, range)
    IN  SelectSeq(frame, Keep)

\* the loop over the windows: each window's bars are resampled on their own and
\* the results appended to `result` with pd.concat, in window order
ResampleWindow(period_df, freq) ==
    IF period_df # <<>> THEN Resample(period_df, freq) ELSE <<>>

RECURSIVE ConcatWindows(_, _, _)
ConcatWindows(frame, freq, ranges) ==
    IF ranges = <<>> THEN <<>>
    ELSE ResampleWindow(WindowFrame(frame, ranges[1]), freq)
         \o ConcatWindows(frame, freq, Tail(ranges))

(***************************************************************************)
(* Results of a call: how it ended and the rows it returned.               *)
(***************************************************************************)
Ok(rows) == [status |-> "ok", err |-> "", rows |-> rows]
Raise(err) == [status |-> "raise", err |-> err, rows |-> <<>>]

\* try: ... except Exception as e: logger.error(...); return pd.DataFrame() / []
ExceptReturnEmpty(r) == IF r.status = "raise" THEN Ok(<<>>) ELSE r

StartsWith(s, prefix) ==
    Len(s) >= Len(prefix) /\ SubSeq(s, 1, Len(prefix)) = prefix

(***************************************************************************)
(* The window-by-window branch shared by the resamplers: the windows are   *)
(* parsed, an empty calendar is an error, each window is resampled on its  *)
(* own, the results are concatenated and the rows with a NaN dropped.      *)
(***************************************************************************)
IntradayResample(df_copy, freq, time_ranges) ==
    IF time_ranges = <<>> THEN Raise("ValueError")
    ELSE Ok(DropNa(ConcatWindows(df_copy, freq, time_ranges)))

(***************************************************************************)
(* resample_with_trading_hours of src/src/thx.py                           *)
(***************************************************************************)
\* the body of the try block, after df_copy is prepared
ResampleBody_Thx(df_copy, p, tp) ==
    IF p \in IntradayTokens
    THEN IF tp = <<>> THEN Raise("ValueError")
         ELSE IntradayResample(df_copy, PERIOD_MAP_Thx[p], parse_trading_hours_Thx(tp))
    ELSE Ok(DropNa(Resample(df_copy, PERIOD_MAP_Thx[p])))

\* the period check and the try / except around the body
ResampleChecked_Thx(frame, p, tp) ==
    IF p \notin DOMAIN PERIOD_MAP_Thx THEN Raise("ValueError")
    ELSE ExceptReturnEmpty(ResampleBody_Thx(Prepare(frame), p, tp))

resample_with_trading_hours_Thx(frame, per, tp) ==
    IF frame = <<>> THEN Ok(<<>>) ELSE ResampleChecked_Thx(frame, Lower(per), tp)

(***************************************************************************)
(* resample_with_trading_hours of src/src/thx_helper.py                    *)
(***************************************************************************)
ResampleBody_ThxHelper(df_copy, p, tp) ==
    IF p \in IntradayTokens
    THEN IF tp = <<>> THEN Raise("ValueError")
         ELSE IntradayResample(df_copy, PERIOD_MAP_ThxHelper[p],
                               parse_trading_hours_Thx(tp))
    ELSE Ok(DropNa(Resample(df_copy, PERIOD_MAP_ThxHelper[p])))

ResampleChecked_ThxHelper(frame, p, tp) ==
    IF p \notin DOMAIN PERIOD_MAP_ThxHelper THEN Raise("ValueError")
    ELSE ExceptReturnEmpty(ResampleBody_ThxHelper(Prepare(frame), p, tp))

resample_with_trading_hours_ThxHelper(frame, per, tp) ==
    IF frame = <<>> THEN Ok(<<>>) ELSE ResampleChecked_ThxHelper(frame, Lower(per), tp)

(***************************************************************************)
(* resample_df of src/src/ta.py                                            *)
(***************************************************************************)
HK_HOURS == <<Win(<<0, 9, 3, 0>>, <<1, 2, 0, 0>>), Win(<<1, 3, 0, 0>>, <<1, 6, 1, 0>>)>>
HS_HOURS_Ta == <<Win(<<0, 9, 0, 0>>, <<1, 1, 3, 0>>), Win(<<1, 3, 0, 0>>, <<1, 5, 0, 0>>)>>

\* "0930-1200,1300-1610" if market.startswith('hk') else "0900-1130,1300-1500"
MarketHours(mkt) == IF StartsWith(mkt, <<"h", "k">>) THEN HK_HOURS ELSE HS_HOURS_Ta

\* parse_trading_hours raises on a malformed window; an empty list raises too
IntradayResample_Ta(df_copy, freq, parsed) ==
    IF parsed.raised THEN Raise("ValueError")
    ELSE IntradayResample(df_copy, freq, parsed.ranges)

ResampleBody_Ta(df_copy, p, mkt) ==
    IF p \in IntradayTokens
    THEN IntradayResample_Ta(df_copy, PERIOD_MAP_Ta[p],
                             parse_trading_hours_Ta(MarketHours(mkt)))
    ELSE Ok(DropNa(Resample(df_copy, PERIOD_MAP_Ta[p])))

ResampleChecked_Ta(frame, p, mkt) ==
    IF p \notin DOMAIN PERIOD_MAP_Ta THEN Raise("ValueError")
    ELSE ResampleBody_Ta(Prepare(frame), p, mkt)

resample_df(frame, per, mkt) ==
    IF frame = <<>> THEN Ok(<<>>) ELSE ResampleChecked_Ta(frame, Lower(per), mkt)

(***************************************************************************)
(* resample_with_trading_hours of src/thx.py.  The frame is indexed by t   *)
(* without being sorted; resample itself orders the bars by timestamp.  An *)
(* empty frame is taken to have its columns.                               *)
(***************************************************************************)
PERIOD_MAP_Legacy ==
    ("5" :> "5min") @@ ("15" :> "15min") @@ ("20" :> "20min") @@ ("30" :> "30min") @@
    ("w" :> "w-mon") @@ ("m" :> "m") @@ ("y" :> "y")

\* start_str, end_str = period.split('-'); time(int(..[:2]), int(..[2:]))
parse_trading_hours_Legacy(trading_hours) ==
    IF \A i \in 1 .. Len(trading_hours) : WellFormed(trading_hours[i])
    THEN [raised |-> FALSE, ranges |-> LenientRanges(trading_hours)]
    ELSE [raised |-> TRUE, ranges |-> <<>>]

\* result = result.dropna().sort_index()
IntradayResample_Legacy(indexed, freq, parsed) ==
    IF parsed.raised THEN Raise("ValueError")
    ELSE Ok(SortIndex(DropNa(ConcatWindows(indexed, freq, parsed.ranges))))

WholeResample_Legacy(indexed, freq) ==
    IF indexed = <<>> THEN Ok(<<>>) ELSE Ok(SortIndex(DropNa(Resample(indexed, freq))))

ResampleBody_Legacy(indexed, p, tp) ==
    IF p \notin DOMAIN PERIOD_MAP_Legacy THEN Raise("ValueError")
    ELSE IF p \in IntradayTokens
    THEN IF tp = <<>> THEN Raise("ValueError")
         ELSE IntradayResample_Legacy(indexed, PERIOD_MAP_Legacy[p],
                                      parse_trading_hours_Legacy(tp))
    ELSE WholeResample_Legacy(indexed, PERIOD_MAP_Legacy[p])

resample_with_trading_hours_Legacy(frame, per, tp) ==
    ResampleBody_Legacy(Prepare(frame), Lower(per), tp)

(***************************************************************************)
(* Inputs.                                                                 *)
(***************************************************************************)
BaseDay == DaysFromCivil(2023, 12, 29)      \* a Friday

StampOf(c, hh, mi) == [y |-> c.y, mo |-> c.mo, d |-> c.d, hh |-> hh, mi |-> mi]
Stamp(day, hh, mi) == StampOf(CivilFromDays(day), hh, mi)

\* times of day of the intraday inputs: two minutes of one 5-minute bucket
\* (11:31, 11:33), one minute before it and one after the lunch break
IntraTimes == {<<11, 28>>, <<11, 31>>, <<11, 33>>, <<13, 2>>}

IntraStamps == {Stamp(BaseDay + k, hm[1], hm[2]) : k \in 0 .. MaxDay, hm \in IntraTimes}
CalStamps == {Stamp(BaseDay + k, 0, 0) : k \in 0 .. MaxCalDay}

IntraShapes == {[o |-> 10, h |-> 10, l |-> 10, c |-> 10, v |-> 1]}
CalShapes == {[o |-> 10, h |-> 14, l |-> 9, c |-> 12, v |-> 100],
              [o |-> 12, h |-> 13, l |-> 8, c |-> 11, v |-> 200],
              [o |-> 11, h |-> 15, l |-> 10, c |-> 13, v |-> 300]}

EarliestStamp(S) == CHOOSE x \in S : \A y \in S : ToDatetime(x) <= ToDatetime(y)

RECURSIVE StampsAscending(_)
StampsAscending(S) ==
    IF S = {} THEN <<>>
    ELSE <<EarliestStamp(S)>> \o StampsAscending(S \ {EarliestStamp(S)})

Reverse(s) == [i \in 1 .. Len(s) |-> s[Len(s) + 1 - i]]

Bar(stamp, shape) ==
    [t |-> stamp, o |-> shape.o, h |-> shape.h, l |-> shape.l, c |-> shape.c,
     v |-> shape.v]

\* the series of at most MaxBars bars with distinct timestamps drawn from `stamps`,
\* values drawn from `shapes`, in ascending or descending order of time
BothOrders(series) == {series, Reverse(series)}

SeriesAt(ts, shapes) ==
    UNION {BothOrders([i \in 1 .. Len(ts) |-> Bar(ts[i], f[i])])
           : f \in [1 .. Len(ts) -> shapes]}

SeriesOver(stamps, shapes) ==
    UNION {SeriesAt(StampsAscending(S), shapes)
           : S \in {X \in SUBSET stamps : Cardinality(X) <= MaxBars}}

MAINLAND_HOURS == <<Win(<<0, 9, 3, 0>>, <<1, 1, 3, 0>>), Win(<<1, 3, 0, 0>>, <<1, 5, 0, 0>>)>>
\* two windows that meet inside one 5-minute bucket
TIGHT_HOURS == <<Win(<<0, 9, 3, 0>>, <<1, 1, 3, 1>>), Win(<<1, 1, 3, 3>>, <<1, 5, 0, 0>>)>>

\* the empty string, and "0930": one window without its '-'
NO_HOURS == <<>>
MALFORMED_HOURS == << <<Win(<<0, 9, 3, 0>>, <<1, 1, 3, 0>>)[1]>> >>
\* "0930,1300-1500": a window without its '-' before a well-formed one
PARTIAL_HOURS == <<MALFORMED_HOURS[1], Win(<<1, 3, 0, 0>>, <<1, 5, 0, 0>>)>>

Calendars ==
    {MAINLAND_HOURS, HK_HOURS, TIGHT_HOURS, NO_HOURS, MALFORMED_HOURS, PARTIAL_HOURS}
Markets == {<<"h", "s">>, <<"h", "k">>}
MinutePeriods == {"5", "15", "20", "30", "5m", "15m", "20m", "30m"}
CalendarPeriods == {"d", "w", "m", "y", "D"}

NoData == [kind |-> "none"]
NoCall == [impl |-> "none", status |-> "none", err |-> "", rows |-> <<>>]

InitIntra ==
    /\ df \in SeriesOver(IntraStamps, IntraShapes)
    /\ period \in MinutePeriods
    /\ trading_periods \in Calendars
    /\ market \in Markets
    /\ data = NoData
    /\ out = NoCall

InitCal ==
    /\ df \in SeriesOver(CalStamps, CalShapes)
    /\ period \in CalendarPeriods
    /\ trading_periods = HK_HOURS
    /\ market \in Markets
    /\ data = NoData
    /\ out = NoCall

Called(impl, r) == [impl |-> impl, status |-> r.status, err |-> r.err, rows |-> r.rows]

ResampleThx ==
    /\ out.impl = "none"
    /\ out' = Called("Thx", resample_with_trading_hours_Thx(df, period, trading_periods))
    /\ UNCHANGED <<df, period, trading_periods, market, data>>

ResampleThxHelper ==
    /\ out.impl = "none"
    /\ out' = Called("ThxHelper",
                     resample_with_trading_hours_ThxHelper(df, period, trading_periods))
    /\ UNCHANGED <<df, period, trading_periods, market, data>>

ResampleDf ==
    /\ out.impl = "none"
    /\ out' = Called("Ta", resample_df(df, period, market))
    /\ UNCHANGED <<df, period, trading_periods, market, data>>

\* a text timestamp converted to a pandas Timestamp: the same instant, another type
AsTimestamp(t) ==
    [y |-> t.y, mo |-> t.mo, d |-> t.d, hh |-> t.hh, mi |-> t.mi, dtype |-> "datetime64"]

\* df['t'] = pd.to_datetime(df['t']) on the caller's frame, before any check
ConvertedInPlace(frame) ==
    [i \in 1 .. Len(frame) |->
        [t |-> AsTimestamp(frame[i].t), o |-> frame[i].o, h |-> frame[i].h,
         l |-> frame[i].l, c |-> frame[i].c, v |-> frame[i].v]]

ResampleLegacy ==
    /\ out.impl = "none"
    /\ out' = Called("Legacy",
                     resample_with_trading_hours_Legacy(df, period, trading_periods))
    /\ df' = ConvertedInPlace(df)
    /\ UNCHANGED <<period, trading_periods, market, data>>

NextResample == ResampleThx \/ ResampleThxHelper \/ ResampleDf \/ ResampleLegacy

SpecIntra == InitIntra /\ [][NextResample]_vars
SpecCal == InitCal /\ [][NextResample]_vars

(***************************************************************************)
(* Claims about the resamplers.                                            *)
(***************************************************************************)
RowsOf(r) == {r.rows[i] : i \in 1 .. Len(r.rows)}

\* the windows of a calendar that hold the time of day of Timestamp t
WindowsOf(t, ranges) == {j \in 1 .. Len(ranges) : InWindow(t, ranges[j])}

\* a row built from observations of at most one window, none outside the windows
FromOneWindow(row, ranges) ==
    \E j \in 1 .. Len(ranges) : \A t \in row.src : InWindow(t, ranges[j])

\* a row that mixes observations of two different windows
SpansTwoWindows(row, ranges) ==
    \E a \in row.src, b \in row.src :
        \E j \in WindowsOf(a, ranges), k \in WindowsOf(b, ranges) : j # k

IntradayCall(impls) ==
    /\ out.impl \in impls
    /\ out.status = "ok"
    /\ df # <<>>

\* C1: in an intraday resample done by resample_with_trading_hours (src/src/thx.py,
\* src/src/thx_helper.py) no output bar aggregates observations of two different
\* trading windows, and observations at 11:28 and 13:02 resampled to 5 minutes end
\* up in different rows.  Stated as the claim states it; the dead intraday branch
\* of src/src/thx_helper.py violates it.
C1_NoBarSpansTwoWindows ==
    IntradayCall({"Thx", "ThxHelper"}) =>
        \A row \in RowsOf(out) :
            /\ ~SpansTwoWindows(row, parse_trading_hours_Thx(trading_periods))
            /\ (period \in {"5", "5m"} =>
                    ~\E a \in row.src, b \in row.src :
                        /\ TimeOfDay(a) = 11 * 60 + 28
                        /\ TimeOfDay(b) = 13 * 60 + 2)

\* C2: for every minute token resample_df accepts, every output bar is built only
\* from observations inside one window of the market's calendar, and an
\* observation outside all windows contributes to no bar.  Stated as the claim
\* states it; resample_df never takes its window-by-window branch.
C2_ResampleDfWindowByWindow ==
    (IntradayCall({"Ta"}) /\ period \in {"5m", "15m", "20m", "30m"}) =>
        \A row \in RowsOf(out) :
            FromOneWindow(row, parse_trading_hours_Ta(MarketHours(market)).ranges)

\* C3: the series resample_with_trading_hours returns is sorted ascending by
\* timestamp, also for an intraday resample over several days and windows.
\* Stated as the claim states it; src/src/thx.py concatenates without re-sorting.
C3_OutputSortedAscending ==
    IntradayCall({"Thx", "ThxHelper"}) =>
        \A i \in 1 .. Len(out.rows) - 1 : out.rows[i].t <= out.rows[i + 1].t

\* the input bars (positions in df) that fall in the bucket labelled `lab`
BucketMembers(freq, lab) ==
    {i \in 1 .. Len(df) : Label(freq, ToDatetime(df[i].t)) = lab}

EarliestOf(M) == CHOOSE i \in M : \A j \in M : ToDatetime(df[i].t) <= ToDatetime(df[j].t)
LatestOf(M) == CHOOSE i \in M : \A j \in M : ToDatetime(df[i].t) >= ToDatetime(df[j].t)

RECURSIVE VolumeOf(_)
VolumeOf(M) == IF M = {} THEN 0
               ELSE LET i == CHOOSE x \in M : TRUE IN df[i].v + VolumeOf(M \ {i})

CalendarFreq == ("d" :> "d") @@ ("w" :> "w-mon") @@ ("m" :> "m") @@ ("y" :> "y")

CalendarCall ==
    /\ out.impl \in {"Ta", "ThxHelper"}
    /\ Lower(period) \in DOMAIN CalendarFreq

\* C4: for the calendar periods (day / week / month / year) the call succeeds and
\* each output bar is the aggregate of exactly the input bars of its bucket, in
\* timestamp order: open of the first, maximum high, minimum low, close of the
\* last, sum of the volumes; every bucket that holds an input bar has exactly one
\* row and a bucket that holds none has no row.
C4_CalendarBucketsAggregate ==
    CalendarCall =>
        LET freq == CalendarFreq[Lower(period)]
        IN  /\ out.status = "ok"
            /\ \A k \in 1 .. Len(out.rows) :
                   LET row == out.rows[k]
                       M == BucketMembers(freq, row.t)
                   IN  /\ M # {}
                       /\ row.o = df[EarliestOf(M)].o
                       /\ row.c = df[LatestOf(M)].c
                       /\ \A i \in M : row.h >= df[i].h /\ row.l <= df[i].l
                       /\ \E i \in M : row.h = df[i].h
                       /\ \E i \in M : row.l = df[i].l
                       /\ row.v = VolumeOf(M)
            /\ \A i \in 1 .. Len(df) :
                   Cardinality({k \in 1 .. Len(out.rows) :
                       out.rows[k].t = Label(freq, ToDatetime(df[i].t))}) = 1

\* C4 witness: a weekly resample by resample_df that returned two bars, one of them
\* aggregating several input bars given in descending order, with an empty day
\* between the input bars
C4_Witness ==
    /\ out.impl = "Ta"
    /\ period = "w"
    /\ Len(out.rows) = 2
    /\ \E k \in 1 .. 2 : Cardinality(out.rows[k].src) >= 2
    /\ Len(df) = 3
    /\ ToDatetime(df[1].t) > ToDatetime(df[3].t)
    /\ df[1].c # df[3].c

(***************************************************************************)
(* Text.  A Python str is a sequence of one-character strings; str.split,  *)
(* str.strip, slicing and float() are computed on the characters.          *)
(***************************************************************************)
Digit == ("0" :> 0) @@ ("1" :> 1) @@ ("2" :> 2) @@ ("3" :> 3) @@ ("4" :> 4) @@
         ("5" :> 5) @@ ("6" :> 6) @@ ("7" :> 7) @@ ("8" :> 8) @@ ("9" :> 9)

RECURSIVE Decimal(_)
\* str(n) of a natural number
Decimal(n) ==
    IF n < 10 THEN <<CHOOSE c \in DOMAIN Digit : Digit[c] = n>>
    ELSE Decimal(n \div 10) \o <<CHOOSE c \in DOMAIN Digit : Digit[c] = n % 10>>

BAD == <<"B", "A", "D">>

\* xs[a:b] for 0 <= a and 0 <= b (Python's zero-based, end-exclusive slice)
Slice(xs, a, b) ==
    IF a >= Len(xs) \/ b <= a THEN <<>>
    ELSE SubSeq(xs, a + 1, IF b > Len(xs) THEN Len(xs) ELSE b)

\* s[-2:]
LastTwo(s) == IF Len(s) <= 2 THEN s ELSE SubSeq(s, Len(s) - 1, Len(s))

\* position of the first sep in s, 0 when there is none
Find(s, sep) ==
    IF \E i \in 1 .. Len(s) : s[i] = sep
    THEN CHOOSE i \in 1 .. Len(s) : s[i] = sep /\ \A j \in 1 .. (i - 1) : s[j] # sep
    ELSE 0

RECURSIVE Split(_, _)
SplitAt(s, sep, i) ==
    IF i = 0 THEN <<s>>
    ELSE <<SubSeq(s, 1, i - 1)>> \o Split(SubSeq(s, i + 1, Len(s)), sep)

\* s.split(sep): "" splits into [""]
Split(s, sep) == SplitAt(s, sep, Find(s, sep))

RECURSIVE LStrip(_)
LStrip(s) == IF s # <<>> /\ s[1] = " " THEN LStrip(Tail(s)) ELSE s

RECURSIVE RStrip(_)
RStrip(s) ==
    IF s # <<>> /\ s[Len(s)] = " " THEN RStrip(SubSeq(s, 1, Len(s) - 1)) ELSE s

\* s.strip()
Strip(s) == RStrip(LStrip(s))

RECURSIVE Join(_, _)
\* sep.join(parts): the way the payload strings are put together upstream
Join(parts, sep) ==
    IF parts = <<>> THEN <<>>
    ELSE IF Len(parts) = 1 THEN parts[1]
    ELSE parts[1] \o <<sep>> \o Join(Tail(parts), sep)

(***************************************************************************)
(* Numbers.  A float is kept as the exact fraction num/den in lowest       *)
(* terms; the rounding of binary floating point is not modelled.           *)
(***************************************************************************)
RECURSIVE GCD(_, _)
GCD(a, b) == IF b = 0 THEN a ELSE GCD(b, a % b)

Reduced(n, d, g) == [num |-> n \div g, den |-> d \div g]
Frac(n, d) == Reduced(n, d, GCD(n, d))

FracAdd(x, y) == Frac(x.num * y.den + y.num * x.den, x.den * y.den)
FracDiv(x, y) == Frac(x.num * y.den, x.den * y.num)

RECURSIVE DigitsValue(_)
DigitsValue(s) ==
    IF s = <<>> THEN 0
    ELSE DigitsValue(SubSeq(s, 1, Len(s) - 1)) * 10 + Digit[s[Len(s)]]

RECURSIVE Pow10(_)
Pow10(n) == IF n = 0 THEN 1 ELSE 10 * Pow10(n - 1)

AllDigits(s) == \A i \in 1 .. Len(s) : s[i] \in DOMAIN Digit

\* the text read by float(): digits with at most one decimal point and at
\* least one digit, after surrounding blanks are dropped
IsFloatText(s, dot) ==
    IF dot = 0 THEN s # <<>> /\ AllDigits(s)
    ELSE /\ AllDigits(SubSeq(s, 1, dot - 1))
         /\ AllDigits(SubSeq(s, dot + 1, Len(s)))
         /\ Len(s) > 1

FloatValue(s, dot) ==
    IF dot = 0 THEN Frac(DigitsValue(s), 1)
    ELSE Frac(DigitsValue(SubSeq(s, 1, dot - 1)) * Pow10(Len(s) - dot)
                  + DigitsValue(SubSeq(s, dot + 1, Len(s))),
              Pow10(Len(s) - dot))

FloatOf(s, dot) ==
    IF IsFloatText(s, dot) THEN [ok |-> TRUE, val |-> FloatValue(s, dot)]
    ELSE [ok |-> FALSE, val |-> Frac(0, 1)]

\* float(text): ok is FALSE where Python raises ValueError
Float(text) == FloatOf(Strip(text), Find(Strip(text), "."))

(***************************************************************************)
(* Values a bar can carry: a float or a piece of text.                     *)
(***************************************************************************)
Num(x) == [type |-> "float", text |-> <<>>, num |-> x.num, den |-> x.den]
Text(s) == [type |-> "str", text |-> s, num |-> 0, den |-> 1]
Absent == [type |-> "absent", text |-> <<>>, num |-> 0, den |-> 1]

(***************************************************************************)
(* process_stock_data_all of src/src/thx/thx_helper.py                     *)
(***************************************************************************)
DEFAULT_PRICE_FACTOR_Tool == 1

RequiredFields == {"dates", "price", "volumn", "sortYear"}

\* data.get('priceFactor', 1), replaced by the default when it is not a
\* positive number
PriceFactorOf(given, default) ==
    IF given.type # "float" \/ given.num <= 0 THEN Frac(default, 1)
    ELSE Frac(given.num, given.den)

price_factor_Tool(d) ==
    PriceFactorOf(IF "priceFactor" \in d.keys THEN d.priceFactor ELSE Num(Frac(1, 1)),
                  DEFAULT_PRICE_FACTOR_Tool)

\* [f"{year}{part}" for part in parts]
YearDates(year, parts) == [i \in 1 .. Len(parts) |-> Decimal(year) \o parts[i]]

\* mutant of YearParts: every year reads the fragments from the start
YearParts_FromStart(date_parts, current_index, count) == Slice(date_parts, 0, count)
\* date_parts[current_index:current_index + count]
YearParts(date_parts, current_index, count) ==
    Slice(date_parts, current_index, current_index + count)

RECURSIVE WalkSortYear(_, _, _)
\* for year, count in data["sortYear"]: ... current_index += count
WalkSortYear(date_parts, sortYear, current_index) ==
    IF sortYear = <<>> THEN <<>>
    ELSE YearDates(sortYear[1][1], YearParts(date_parts, current_index, sortYear[1][2]))
         \o WalkSortYear(date_parts, Tail(sortYear), current_index + sortYear[1][2])

ReconstructDates(d) == WalkSortYear(Split(d.dates, ","), d.sortYear, 0)

\* one price group: base, open delta, high delta, close delta, each over the factor
PriceRow(base, do, dh, dc, f) ==
    [o |-> FracAdd(FracDiv(base, f), FracDiv(do, f)),
     c |-> FracAdd(FracDiv(base, f), FracDiv(dc, f)),
     h |-> FracAdd(FracDiv(base, f), FracDiv(dh, f)),
     l |-> FracDiv(base, f)]

\* try: prices.append({...}) except (ValueError, IndexError): continue
GroupPrices_Tool(b, do, dh, dc, f) ==
    IF b.ok /\ do.ok /\ dh.ok /\ dc.ok
    THEN <<PriceRow(b.val, do.val, dh.val, dc.val, f)>>
    ELSE <<>>

RECURSIVE Prices_Tool(_, _)
\* for i in range(0, len(price_values), 4): the length is a multiple of 4 here
Prices_Tool(price_values, f) ==
    IF price_values = <<>> THEN <<>>
    ELSE GroupPrices_Tool(Float(price_values[1]), Float(price_values[2]),
                          Float(price_values[3]), Float(price_values[4]), f)
         \o Prices_Tool(Slice(price_values, 4, Len(price_values)), f)

Min3(a, b, c) ==
    IF a <= b /\ a <= c THEN a ELSE IF b <= c THEN b ELSE c

\* [{"date": dates[i], "volume": volumes[i], **prices[i]} for i in range(n)]
Merge(dates, volumes, prices, n) ==
    [i \in 1 .. n |->
        [t |-> dates[i], v |-> Text(volumes[i]),
         o |-> prices[i].o, h |-> prices[i].h, l |-> prices[i].l, c |-> prices[i].c]]

MergeAll_Tool(dates, volumes, prices) ==
    Ok(Merge(dates, volumes, prices, Min3(Len(prices), Len(dates), Len(volumes))))

\* the body of the try block
AllBody_Tool(d, price_values) ==
    IF Len(price_values) % 4 # 0 THEN Raise("ValueError")
    ELSE MergeAll_Tool(ReconstructDates(d), Split(d.volumn, ","),
                       Prices_Tool(price_values, price_factor_Tool(d)))

process_stock_data_all_Tool(d) ==
    IF ~(RequiredFields \subseteq d.keys) THEN Raise("ValueError")
    ELSE ExceptReturnEmpty(AllBody_Tool(d, Split(d.price, ",")))

(***************************************************************************)
(* process_stock_data_all of src/thx.py                                    *)
(***************************************************************************)
LEGACY_PRICE_FACTOR == 1000

\* float() of a token of a group raises ValueError, which nothing catches
GroupPrices_Legacy(b, do, dh, dc, rest) ==
    IF ~(b.ok /\ do.ok /\ dh.ok /\ dc.ok) \/ rest.status = "raise"
    THEN Raise("ValueError")
    ELSE Ok(<<PriceRow(b.val, do.val, dh.val, dc.val, Frac(LEGACY_PRICE_FACTOR, 1))>>
            \o rest.rows)

RECURSIVE Prices_Legacy(_)
\* group = price_values[i:i+4]; a group short of 4 values raises ValueError
Prices_Legacy(price_values) ==
    IF price_values = <<>> THEN Ok(<<>>)
    ELSE IF Len(price_values) < 4 THEN Raise("ValueError")
    ELSE GroupPrices_Legacy(Float(price_values[1]), Float(price_values[2]),
                            Float(price_values[3]), Float(price_values[4]),
                            Prices_Legacy(Slice(price_values, 4, Len(price_values))))

\* the three lists are reversed, cut to the common length and merged, and
\* the merged list is reversed back
MergeAll_Legacy(dates, volumes, prices) ==
    Ok(Reverse(Merge(Reverse(dates), Reverse(volumes), Reverse(prices),
                     Min3(Len(prices), Len(dates), Len(volumes)))))

AllBody_Legacy(d, prices) ==
    IF prices.status = "raise" THEN prices
    ELSE MergeAll_Legacy(ReconstructDates(d), Split(d.volumn, ","), prices.rows)

process_stock_data_all_Legacy(d) ==
    IF ~({"dates", "sortYear", "price", "volumn"} \subseteq d.keys) THEN Raise("KeyError")
    ELSE AllBody_Legacy(d, Prices_Legacy(Split(d.price, ",")))

(***************************************************************************)
(* process_stock_data_all of src/src/thx.py and of src/src/thx_helper.py:  *)
(* the body of src/src/thx/thx_helper.py with other column names, and      *)
(* other price factors.                                                    *)
(***************************************************************************)
DEFAULT_PRICE_FACTOR_Thx == 1000
DEFAULT_PRICE_FACTOR_ThxHelper == 1000

\* price_factor = data.get('priceFactor', DEFAULT_PRICE_FACTOR)
price_factor_Thx(d) ==
    PriceFactorOf(IF "priceFactor" \in d.keys THEN d.priceFactor
                  ELSE Num(Frac(DEFAULT_PRICE_FACTOR_Thx, 1)),
                  DEFAULT_PRICE_FACTOR_Thx)

\* price_factor = data.get('priceFactor', 1)
price_factor_ThxHelper(d) ==
    PriceFactorOf(IF "priceFactor" \in d.keys THEN d.priceFactor ELSE Num(Frac(1, 1)),
                  DEFAULT_PRICE_FACTOR_ThxHelper)

AllBody_Factor(d, price_values, price_factor) ==
    IF Len(price_values) % 4 # 0 THEN Raise("ValueError")
    ELSE MergeAll_Tool(ReconstructDates(d), Split(d.volumn, ","),
                       Prices_Tool(price_values, price_factor))

process_stock_data_all_Thx(d) ==
    IF ~(RequiredFields \subseteq d.keys) THEN Raise("ValueError")
    ELSE ExceptReturnEmpty(AllBody_Factor(d, Split(d.price, ","), price_factor_Thx(d)))

process_stock_data_all_ThxHelper(d) ==
    IF ~(RequiredFields \subseteq d.keys) THEN Raise("ValueError")
    ELSE ExceptReturnEmpty(AllBody_Factor(d, Split(d.price, ","), price_factor_ThxHelper(d)))

(***************************************************************************)
(* process_stock_data_last of src/src/thx/thx_helper.py                    *)
(***************************************************************************)
\* f'{time_str[:2]}:{time_str[-2:]}' when the token has 4 characters or more
FormattedTime_Tool(time_str) ==
    IF Len(time_str) >= 4 THEN Slice(time_str, 0, 2) \o <<":">> \o LastTwo(time_str)
    ELSE time_str

MinuteBar(t, o, h, l, c, v) ==
    [t |-> t, v |-> Num(v), o |-> o, h |-> h, l |-> l, c |-> c]

\* the inner try: a group without group[4] raises IndexError, a token that
\* float() rejects raises ValueError; both are caught and the group is left out
Record_Tool(date_str, group) ==
    IF ~Float(group[2]).ok \/ Len(group) < 5 THEN <<>>
    ELSE IF ~Float(group[5]).ok THEN <<>>
    ELSE <<MinuteBar(date_str \o <<" ">> \o FormattedTime_Tool(Strip(group[1])),
                     Float(group[2]).val, Float(group[2]).val, Float(group[2]).val,
                     Float(group[2]).val, Float(group[5]).val)>>

\* if not min_values.strip(): continue ... if len(group) < 4: continue
Group_Tool(date_str, min_values, group) ==
    IF Strip(min_values) = <<>> \/ Len(group) < 4 THEN <<>>
    ELSE Record_Tool(date_str, group)

RECURSIVE Records_Tool(_, _)
Records_Tool(date_str, groups) ==
    IF groups = <<>> THEN <<>>
    ELSE Group_Tool(date_str, groups[1], Split(groups[1], ","))
         \o Records_Tool(date_str, Tail(groups))

\* date_str = data.get('date', '')
process_stock_data_last_Tool(d) ==
    IF "data" \notin d.keys THEN Ok(<<>>)
    ELSE Ok(Records_Tool(IF "date" \in d.keys THEN d.date ELSE <<>>, Split(d.data, ";")))

(***************************************************************************)
(* process_stock_data_last of src/thx.py                                   *)
(***************************************************************************)
\* the fields are read in the order group[0], group[1], group[3], group[2];
\* a missing one raises IndexError, a non-numeric one ValueError
Record_Legacy(date_str, group) ==
    IF Len(group) < 2 THEN Raise("IndexError")
    ELSE IF ~Float(group[2]).ok THEN Raise("ValueError")
    ELSE IF Len(group) < 4 THEN Raise("IndexError")
    ELSE IF ~Float(group[4]).ok \/ ~Float(group[3]).ok THEN Raise("ValueError")
    ELSE Ok(<<MinuteBar(date_str \o <<" ">> \o Slice(group[1], 0, 2) \o <<":">>
                            \o LastTwo(group[1]),
                        Float(group[2]).val, Float(group[4]).val, Float(group[4]).val,
                        Float(group[2]).val, Float(group[3]).val)>>)

\* prices.append(...) after the earlier groups; the first exception ends the call
Append_Legacy(before, this) ==
    IF before.status = "raise" THEN before
    ELSE IF this.status = "raise" THEN this
    ELSE Ok(before.rows \o this.rows)

RECURSIVE Records_Legacy(_, _)
Records_Legacy(date_str, groups) ==
    IF groups = <<>> THEN Ok(<<>>)
    ELSE Append_Legacy(Records_Legacy(date_str, SubSeq(groups, 1, Len(groups) - 1)),
                       Record_Legacy(date_str, Split(groups[Len(groups)], ",")))

process_stock_data_last_Legacy(d) ==
    IF ~({"data", "date"} \subseteq d.keys) THEN Raise("KeyError")
    ELSE Records_Legacy(d.date, Split(d.data, ";"))

(***************************************************************************)
(* process_stock_data_last of src/src/thx.py                               *)
(***************************************************************************)
\* the inner try: o and c from group[1], h and l from group[3], v from
\* group[2]; a token float() rejects raises ValueError and the group is left out
Record_Thx(date_str, group) ==
    IF ~Float(group[2]).ok \/ ~Float(group[4]).ok \/ ~Float(group[3]).ok THEN <<>>
    ELSE <<MinuteBar(date_str \o <<" ">> \o FormattedTime_Tool(Strip(group[1])),
                     Float(group[2]).val, Float(group[4]).val, Float(group[4]).val,
                     Float(group[2]).val, Float(group[3]).val)>>

Group_Thx(date_str, min_values, group) ==
    IF Strip(min_values) = <<>> \/ Len(group) < 4 THEN <<>>
    ELSE Record_Thx(date_str, group)

RECURSIVE Records_Thx(_, _)
Records_Thx(date_str, groups) ==
    IF groups = <<>> THEN <<>>
    ELSE Group_Thx(date_str, groups[1], Split(groups[1], ","))
         \o Records_Thx(date_str, Tail(groups))

process_stock_data_last_Thx(d) ==
    IF "data" \notin d.keys THEN Ok(<<>>)
    ELSE Ok(Records_Thx(IF "date" \in d.keys THEN d.date ELSE <<>>, Split(d.data, ";")))

(***************************************************************************)
(* Builder inputs: the payloads the decoders hand to the builders.         *)
(***************************************************************************)
MaxItems == 3       \* date fragments and volumes in an all-history payload
MaxYears == 2       \* entries of sortYear
MaxCount == 2       \* the largest fragment count of a sortYear entry
MaxGroups == 2      \* complete price groups in an all-history payload
MaxRecords == 3     \* ';'-separated groups in a latest payload

FirstYear == 2023

\* the date fragments "0101", "0102", ... and the volumes "1000", "1100", ...
Fragment(i) == Decimal(10000 + 100 + i)
DateFragment(i) == Tail(Fragment(i))
VolumeToken(i) == Decimal(1000 + 100 * (i - 1))

DatesTexts == {Join([i \in 1 .. n |-> DateFragment(i)], ",") : n \in 0 .. MaxItems}
VolumnTexts == {Join([i \in 1 .. n |-> VolumeToken(i)], ",") : n \in 0 .. MaxItems}

SortYears ==
    UNION {{[i \in 1 .. n |-> <<FirstYear + i - 1, counts[i]>>]
            : counts \in [1 .. n -> 0 .. MaxCount]} : n \in 0 .. MaxYears}

\* the i-th well-formed price group: base, open delta, high delta, close delta
GoodGroup(i) ==
    IF i = 1 THEN <<Decimal(100000), Decimal(1000), Decimal(2000), Decimal(500)>>
    ELSE <<Decimal(100000 + 1000 * (i - 1)), Decimal(500), Decimal(1500), Decimal(300)>>

\* the same group with a token that is not a number
BadGroup(i) == <<GoodGroup(i)[1], BAD, GoodGroup(i)[3], GoodGroup(i)[4]>>

RECURSIVE Flatten(_)
Flatten(groups) == IF groups = <<>> THEN <<>> ELSE groups[1] \o Flatten(Tail(groups))

PriceTokens(n, bad, extra) ==
    Flatten([i \in 1 .. n |-> IF i \in bad THEN BadGroup(i) ELSE GoodGroup(i)])
    \o (IF extra THEN <<Decimal(77)>> ELSE <<>>)

\* two groups joined by ';' instead of ','
SEMICOLON_PRICE == Join(GoodGroup(1), ",") \o <<";">> \o Join(GoodGroup(2), ",")

PriceTexts ==
    {Join(PriceTokens(n, bad, extra), ",")
     : <<n, bad, extra>> \in {x \in (0 .. MaxGroups) \X (SUBSET (1 .. MaxGroups)) \X BOOLEAN
                                : x[2] \subseteq 1 .. x[1]}}
    \cup {SEMICOLON_PRICE}

PriceFactors == {Absent, Num(Frac(1000, 1))}

AllPayload(dates, sortYear, price, volumn, priceFactor) ==
    [kind |-> "all",
     keys |-> RequiredFields \cup (IF priceFactor = Absent THEN {} ELSE {"priceFactor"}),
     dates |-> dates, sortYear |-> sortYear, price |-> price, volumn |-> volumn,
     priceFactor |-> priceFactor]

\* a complete payload of one bar, and the same payload without one of its fields
ONE_BAR_PAYLOAD ==
    AllPayload(DateFragment(1), << <<FirstYear, 1>> >>, Join(GoodGroup(1), ","),
               VolumeToken(1), Absent)

WithoutField(d, field) == [d EXCEPT !.keys = @ \ {field}]

AllPayloads ==
    {AllPayload(x[1], x[2], x[3], x[4], x[5])
     : x \in DatesTexts \X SortYears \X PriceTexts \X VolumnTexts \X PriceFactors}
    \cup {WithoutField(ONE_BAR_PAYLOAD, field) : field \in RequiredFields}

\* minute records "HHMM,price,volume,average[,...]" and broken ones
REC_0930 == <<"0", "9", "3", "0", ",", "1", "0", ".", "0", ",", "1", "0", "0", ",", "1", "0", ".", "0">>
REC_0931 == <<"0", "9", "3", "1", ",", "1", "0", ".", "2", ",", "1", "5", "0", ",", "1", "0", ".", "1", "5">>
REC_FIVE == <<"0", "9", "3", "2", ",", "1", "0", ".", "3", ",", "2", "0", "0", ",", "1", "0", ".", "2", "5", ",", "7">>
REC_TEXT_PRICE == <<"0", "9", "3", "3", ",", "N", ",", "1", "0", "0", ",", "1", "0", ".", "0">>
REC_BAD == <<"B", "A", "D">>
REC_BLANK == <<" ">>

RecordTexts == {REC_0930, REC_0931, REC_FIVE, REC_TEXT_PRICE, REC_BAD, REC_BLANK, <<>>}

DATE_TEXT == <<"2", "0", "2", "3", "1", "2", "2", "9">>

LastPayloads ==
    {[kind |-> "last", keys |-> {"data", "date"}, date |-> DATE_TEXT,
      data |-> Join(groups, ";")]
     : groups \in UNION {[1 .. n -> RecordTexts] : n \in 0 .. MaxRecords}}
    \cup {[kind |-> "last", keys |-> {"date"}, date |-> DATE_TEXT, data |-> <<>>],
          [kind |-> "last", keys |-> {"data"}, date |-> <<>>, data |-> REC_0930]}

NoFrame == <<>>

InitAll ==
    /\ df = NoFrame
    /\ period = "d"
    /\ trading_periods = HK_HOURS
    /\ market = <<"h", "k">>
    /\ data \in AllPayloads
    /\ out = NoCall

InitLast ==
    /\ df = NoFrame
    /\ period = "d"
    /\ trading_periods = HK_HOURS
    /\ market = <<"h", "k">>
    /\ data \in LastPayloads
    /\ out = NoCall

ProcessAllTool ==
    /\ out.impl = "none"
    /\ out' = Called("Tool", process_stock_data_all_Tool(data))
    /\ UNCHANGED <<df, period, trading_periods, market, data>>

ProcessAllLegacy ==
    /\ out.impl = "none"
    /\ out' = Called("Legacy", process_stock_data_all_Legacy(data))
    /\ UNCHANGED <<df, period, trading_periods, market, data>>

ProcessLastTool ==
    /\ out.impl = "none"
    /\ out' = Called("Tool", process_stock_data_last_Tool(data))
    /\ UNCHANGED <<df, period, trading_periods, market, data>>

ProcessLastLegacy ==
    /\ out.impl = "none"
    /\ out' = Called("Legacy", process_stock_data_last_Legacy(data))
    /\ UNCHANGED <<df, period, trading_periods, market, data>>

ProcessLastThx ==
    /\ out.impl = "none"
    /\ out' = Called("Thx", process_stock_data_last_Thx(data))
    /\ UNCHANGED <<df, period, trading_periods, market, data>>

NextAll == ProcessAllTool \/ ProcessAllLegacy
NextLast == ProcessLastTool \/ ProcessLastLegacy \/ ProcessLastThx

SpecAll == InitAll /\ [][NextAll]_vars
SpecLast == InitLast /\ [][NextLast]_vars

(***************************************************************************)
(* Claims about the builders.                                              *)
(***************************************************************************)
AllCall(impls) == data.kind = "all" /\ RequiredFields \subseteq data.keys /\ out.impl \in impls

PriceValues == Split(data.price, ",")
GroupCount == Len(PriceValues) \div 4
GroupAt(i) == SubSeq(PriceValues, 4 * i - 3, 4 * i)
GroupOk(i) == \A j \in 1 .. 4 : Float(GroupAt(i)[j]).ok
GoodGroups == {i \in 1 .. GroupCount : GroupOk(i)}
FragmentsOf == Split(data.dates, ",")
VolumesOf == Split(data.volumn, ",")

RECURSIVE CountSum(_)
\* the sum of the counts of the first j entries of sortYear
CountSum(j) == IF j = 0 THEN 0 ELSE CountSum(j - 1) + data.sortYear[j][2]

\* the entry of sortYear whose cumulative count range contains k
YearIndexOf(k) ==
    CHOOSE j \in 1 .. Len(data.sortYear) : CountSum(j - 1) < k /\ k <= CountSum(j)

ExpectedDateCount ==
    IF CountSum(Len(data.sortYear)) <= Len(FragmentsOf)
    THEN CountSum(Len(data.sortYear)) ELSE Len(FragmentsOf)

ExpectedDate(k) == Decimal(data.sortYear[YearIndexOf(k)][1]) \o FragmentsOf[k]

\* the bar's prices are those of price group i under one of the two factors
PairsGroup(bar, i) ==
    \E f \in {Frac(1, 1), Frac(1000, 1)} :
        PriceRow(Float(GroupAt(i)[1]).val, Float(GroupAt(i)[2]).val,
                 Float(GroupAt(i)[3]).val, Float(GroupAt(i)[4]).val, f)
        = [o |-> bar.o, c |-> bar.c, h |-> bar.h, l |-> bar.l]

\* the bar's volume is the token, as text or as the number it spells
VolumeIs(v, token) ==
    v = Text(token) \/ (Float(token).ok /\ v = Num(Float(token).val))

\* C5: for a payload of well-formed price groups, process_stock_data_all
\* returns min(#price groups, #reconstructed dates, #volumes) bars and bar i
\* pairs date i, price group i and volume i; the call does not fail, and
\* the series is empty when that minimum is 0.
C5_EmitsCommonMinimum ==
    (AllCall({"Tool", "Legacy"}) /\ Len(PriceValues) % 4 = 0
        /\ GoodGroups = 1 .. GroupCount)
    => /\ out.status = "ok"
       /\ Len(out.rows) = Min3(GroupCount, ExpectedDateCount, Len(VolumesOf))
       /\ \A i \in 1 .. Len(out.rows) :
            /\ out.rows[i].t = ExpectedDate(i)
            /\ VolumeIs(out.rows[i].v, VolumesOf[i])
            /\ PairsGroup(out.rows[i], i)

\* C6: when the number of comma-separated tokens of price is not a multiple
\* of 4, process_stock_data_all raises to the caller and returns no series.
C6_TokenCountErrorRaised ==
    (AllCall({"Tool", "Legacy"}) /\ Len(PriceValues) % 4 # 0) => out.status = "raise"

\* C7: when the token count is a multiple of 4 and some price group is
\* malformed, process_stock_data_all does not abort: it returns the bars
\* built from the well-formed groups.
C7_MalformedGroupSkipped ==
    (AllCall({"Tool", "Legacy"}) /\ Len(PriceValues) % 4 = 0
        /\ GoodGroups # 1 .. GroupCount)
    => /\ out.status = "ok"
       /\ Len(out.rows)
            = Min3(Cardinality(GoodGroups), ExpectedDateCount, Len(VolumesOf))
       /\ \A i \in 1 .. Len(out.rows) : \E g \in GoodGroups : PairsGroup(out.rows[i], g)

\* C8: the date list is rebuilt by walking sortYear in order: the k-th date is
\* the k-th fragment prefixed by the year whose cumulative count range
\* contains k, fragments beyond the sum of the counts give no date, and the
\* k-th bar returned carries the k-th date.
C8_DatesWalkSortYear ==
    AllCall({"Tool"})
    => /\ Len(ReconstructDates(data)) = ExpectedDateCount
       /\ \A k \in 1 .. ExpectedDateCount : ReconstructDates(data)[k] = ExpectedDate(k)
       /\ out.status = "ok"
       /\ Len(out.rows) <= ExpectedDateCount
       /\ \A k \in 1 .. Len(out.rows) : out.rows[k].t = ExpectedDate(k)

\* two bars of two different years returned, and a fragment left over
C8_Witness ==
    /\ AllCall({"Tool"})
    /\ Len(data.sortYear) = 2
    /\ Len(out.rows) = 2
    /\ out.rows[1].t = Decimal(FirstYear) \o DateFragment(1)
    /\ out.rows[2].t = Decimal(FirstYear + 1) \o DateFragment(2)
    /\ Len(FragmentsOf) > CountSum(2)

ExampleWith(price) ==
    AllPayload(Join(<<DateFragment(1), DateFragment(2)>>, ","), << <<FirstYear, 2>> >>,
               price, Join(<<VolumeToken(1), VolumeToken(2)>>, ","), Num(Frac(1000, 1)))

ExampleBars ==
    << [t |-> Decimal(FirstYear) \o DateFragment(1), v |-> Num(Frac(1000, 1)),
        o |-> Frac(1010, 10), h |-> Frac(1020, 10), l |-> Frac(1000, 10),
        c |-> Frac(1005, 10)],
       [t |-> Decimal(FirstYear) \o DateFragment(2), v |-> Num(Frac(1100, 1)),
        o |-> Frac(1015, 10), h |-> Frac(1025, 10), l |-> Frac(1010, 10),
        c |-> Frac(1013, 10)] >>

\* C9: for dates "0101,0102", sortYear [[2023,2]], the two price groups
\* 100000,1000,2000,500 and 101000,500,1500,300 (joined by ';' as written, or
\* by ','), volumn "1000,1100" and factor 1000, the builder returns exactly
\* the bars 20230101 o 101.0 h 102.0 c 100.5 l 100.0 v 1000 and
\* 20230102 o 101.5 h 102.5 c 101.3 l 101.0 v 1100.
C9_ExampleDecodesToTwoBars ==
    (out.impl = "Tool"
        /\ data \in {ExampleWith(SEMICOLON_PRICE),
                     ExampleWith(Join(GoodGroup(1) \o GoodGroup(2), ","))})
    => (out.status = "ok" /\ out.rows = ExampleBars)

MinuteGroups == Split(data.data, ";")

\* a non-empty group of at least 4 fields with numeric price and volume
GoodRecord(g) ==
    /\ Strip(g) # <<>>
    /\ Len(Split(g, ",")) >= 4
    /\ Float(Split(g, ",")[2]).ok
    /\ Float(Split(g, ",")[3]).ok

\* C10: process_stock_data_last raises nothing and returns one bar per
\* non-empty ';'-separated group that has at least 4 fields with numeric
\* price and volume (so "0930,10.0,100,10.0;BAD;0931,10.2,150,10.15" gives 2).
C10_LastOneBarPerGoodGroup ==
    (data.kind = "last" /\ "data" \in data.keys /\ out.impl \in {"Tool", "Legacy"})
    => /\ out.status = "ok"
       /\ Len(out.rows)
            = Cardinality({i \in 1 .. Len(MinuteGroups) : GoodRecord(MinuteGroups[i])})

\* the timestamp the spec gives a record: date + " " + HH:MM
RecordTime(token) == data.date \o <<" ">> \o Slice(token, 0, 2) \o <<":">> \o LastTwo(token)

\* the bar is the one the record calls for: price in o, h, l and c, third field in v
BarOfRecord(bar, fields) ==
    /\ Len(fields) >= 4
    /\ Float(fields[2]).ok
    /\ Float(fields[3]).ok
    /\ bar.t = RecordTime(fields[1])
    /\ bar.o = Float(fields[2]).val
    /\ bar.h = Float(fields[2]).val
    /\ bar.l = Float(fields[2]).val
    /\ bar.c = Float(fields[2]).val
    /\ bar.v = Num(Float(fields[3]).val)

\* C11: every bar process_stock_data_last emits is the bar of one of the
\* minute records: timestamp date + " " + HH:MM, open = high = low = close =
\* the record's price (second field) and volume = its third field.
C11_LastBarFields ==
    (data.kind = "last" /\ {"data", "date"} \subseteq data.keys
        /\ out.impl \in {"Tool", "Thx"})
    => \A i \in 1 .. Len(out.rows) :
         \E k \in 1 .. Len(MinuteGroups) :
            BarOfRecord(out.rows[i], Split(MinuteGroups[k], ","))

\* the payload lacks a field its builder requires
MissingField ==
    \/ data.kind = "all" /\ ~({"dates", "price", "volumn"} \subseteq data.keys)
    \/ data.kind = "last" /\ "data" \notin data.keys

\* C12: a payload missing dates, price or volumn (process_stock_data_all) or
\* data (process_stock_data_last) makes the builder raise to the caller; it
\* does not return an empty series.
C12_MissingFieldRaises ==
    (out.impl = "Tool" /\ MissingField) => out.status = "raise"

(***************************************************************************)
(* extract_json_from_js of src/src/thx/thx_helper.py and of src/thx.py.    *)
(* json.loads is computed for the JSON texts made of digits and of objects *)
(* with at most one member, {} and {"key":value}, without blanks.          *)
(***************************************************************************)
QUOTE == "\""

\* position of the last sep in s, 0 when there is none
RFind(s, sep) ==
    IF \E i \in 1 .. Len(s) : s[i] = sep
    THEN CHOOSE i \in 1 .. Len(s) : s[i] = sep /\ \A j \in (i + 1) .. Len(s) : s[j] # sep
    ELSE 0

IsJsonNumber(s) == s # <<>> /\ AllDigits(s) /\ (Len(s) = 1 \/ s[1] # "0")

\* "key" of letters: the closing quote is at position close
IsJsonKey(m, close) ==
    /\ close > 1
    /\ \A i \in 2 .. (close - 1) : m[i] \in {"a", "b"}

RECURSIVE IsJson(_)
\* m is "key":value, the key closed by the second quote of m
IsJsonMember(m, close) ==
    /\ Len(m) > close + 1
    /\ m[1] = QUOTE
    /\ IsJsonKey(m, close)
    /\ m[close + 1] = ":"
    /\ IsJson(SubSeq(m, close + 2, Len(m)))

IsJsonObject(s) ==
    /\ Len(s) >= 2
    /\ s[1] = "{"
    /\ s[Len(s)] = "}"
    /\ \/ Len(s) = 2
       \/ IsJsonMember(SubSeq(s, 2, Len(s) - 1), 1 + Find(SubSeq(s, 3, Len(s) - 1), QUOTE))

\* json.loads(s) returns a value; where this is FALSE it raises JSONDecodeError
IsJson(s) == IsJsonNumber(s) \/ IsJsonObject(s)

NoneValue == [type |-> "None", text |-> <<>>, num |-> 0, den |-> 1]

\* a function that returns one value: the decoded JSON, kept as its text, or None
Return(value) == Ok(<<value>>)

\* json.loads(js_str[start_idx:end_idx]) inside try / except (ValueError, JSONDecodeError)
Loads_Tool(json_str) ==
    IF IsJson(json_str) THEN Return(Text(json_str)) ELSE Return(NoneValue)

\* start_idx = js_str.find('(') + 1; end_idx = js_str.rfind(')')
Extract_Tool(js_str, start_idx, end_idx) ==
    IF start_idx <= 0 \/ end_idx <= start_idx THEN Return(NoneValue)
    ELSE Loads_Tool(Slice(js_str, start_idx, end_idx))

extract_json_from_js_Tool(js_str) ==
    IF js_str = <<>> THEN Return(NoneValue)
    ELSE Extract_Tool(js_str, Find(js_str, "("), RFind(js_str, ")") - 1)

\* try: json.loads(json_str) except json.JSONDecodeError: print(...); return None
Loads_Legacy(json_str) ==
    IF IsJson(json_str) THEN Return(Text(json_str)) ELSE Return(NoneValue)

Extract_Legacy(js_str, start_idx, end_idx) ==
    IF start_idx >= end_idx THEN Raise("ValueError")
    ELSE Loads_Legacy(Slice(js_str, start_idx, end_idx))

extract_json_from_js_Legacy(js_str) ==
    Extract_Legacy(js_str, Find(js_str, "("), RFind(js_str, ")") - 1)

MaxNest == 2        \* nesting depth of the JSON objects in a wrapped payload

RECURSIVE Nested(_, _)
\* core wrapped k times as {"a":core}
Nested(core, k) ==
    IF k = 0 THEN core
    ELSE <<"{", QUOTE, "a", QUOTE, ":">> \o Nested(core, k - 1) \o <<"}">>

JsonCores == {<<"1">>, <<"{", "}">>, <<>>, <<"{">>, <<"0", "1">>, <<"a">>}
Interiors == {Nested(core, k) : core \in JsonCores, k \in 0 .. MaxNest}
Wrappers == {<< <<>>, <<>> >>, << <<"c", "b", "(">>, <<")">> >>, << <<"(">>, <<")", ";">> >>,
             << <<"c", "b", "(">>, <<>> >>, << <<>>, <<")">> >>, << <<")">>, <<"(">> >>}

JsPayloads ==
    {[kind |-> "js", text |-> w[1] \o interior \o w[2]]
     : w \in Wrappers, interior \in Interiors}

InitJs ==
    /\ df = NoFrame
    /\ period = "d"
    /\ trading_periods = HK_HOURS
    /\ market = <<"h", "k">>
    /\ data \in JsPayloads
    /\ out = NoCall

ExtractTool ==
    /\ out.impl = "none"
    /\ out' = Called("Tool", extract_json_from_js_Tool(data.text))
    /\ UNCHANGED <<df, period, trading_periods, market, data>>

ExtractLegacy ==
    /\ out.impl = "none"
    /\ out' = Called("Legacy", extract_json_from_js_Legacy(data.text))
    /\ UNCHANGED <<df, period, trading_periods, market, data>>

NextJs == ExtractTool \/ ExtractLegacy

SpecJs == InitJs /\ [][NextJs]_vars

\* the payload has a '(' with a ')' after it
HasParenPair ==
    \E i \in 1 .. Len(data.text) : \E j \in (i + 1) .. Len(data.text) :
        data.text[i] = "(" /\ data.text[j] = ")"

\* the text between the first '(' and the last ')'
InteriorOf == SubSeq(data.text, Find(data.text, "(") + 1, RFind(data.text, ")") - 1)

\* C13: when the payload has no '(' ... ')' pair, or the text between the
\* first '(' and the last ')' is not valid JSON, extract_json_from_js raises
\* to the caller; it returns no value, None included.
C13_DecodeErrorRaised ==
    (data.kind = "js" /\ out.impl \in {"Tool", "Legacy"}
        /\ (~HasParenPair \/ ~IsJson(InteriorOf)))
    => out.status = "raise"

(***************************************************************************)
(* Claims about the resamplers' errors and the day period.                 *)
(***************************************************************************)
\* no window of the trading-hours string is a well-formed HHMM-HHMM window
EmptyCalendar ==
    \A i \in 1 .. Len(trading_periods) : ~WellFormed(trading_periods[i])

\* C14: an intraday resample (period 5/15/20/30) of a non-empty series with a
\* missing or empty trading-hours string, or one that parses to an empty
\* calendar, raises to the caller; it returns no series.
C14_NoCalendarRaises ==
    (out.impl \in {"Thx", "Legacy"} /\ df # <<>> /\ Lower(period) \in IntradayTokens
        /\ EmptyCalendar)
    => out.status = "raise"

\* the period is one of the spec's vocabulary and, for a minute period, the
\* trading hours are well-formed windows
UsablePeriod ==
    \/ Lower(period) \in DOMAIN CalendarFreq
    \/ /\ Lower(period) \in IntradayTokens
       /\ trading_periods # <<>>
       /\ \A i \in 1 .. Len(trading_periods) : WellFormed(trading_periods[i])

\* C15: resampling an empty series returns an empty series without raising,
\* for every period.
C15_EmptyInputEmptyOutput ==
    (out.impl \in {"Ta", "ThxHelper", "Legacy"} /\ df = <<>> /\ UsablePeriod)
    => (out.status = "ok" /\ out.rows = <<>>)

\* one bar per day, in ascending date order
DailyAscending ==
    /\ df # <<>>
    /\ \A i \in 1 .. Len(df) : TimeOfDay(ToDatetime(df[i].t)) = 0
    /\ \A i \in 1 .. (Len(df) - 1) : DayOf(ToDatetime(df[i].t)) < DayOf(ToDatetime(df[i + 1].t))

SameBar(row, bar) ==
    /\ row.t = ToDatetime(bar.t)
    /\ row.o = bar.o
    /\ row.h = bar.h
    /\ row.l = bar.l
    /\ row.c = bar.c
    /\ row.v = bar.v

\* C16: resampling to the day period a series that has one bar per day in
\* ascending order returns the same series bar for bar (so resampling the
\* result again changes nothing).
C16_DailyToDayIsIdentity ==
    (out.impl \in {"Ta", "ThxHelper", "Legacy"} /\ Lower(period) = "d" /\ DailyAscending)
    => /\ out.status = "ok"
       /\ Len(out.rows) = Len(df)
       /\ \A i \in 1 .. Len(out.rows) : SameBar(out.rows[i], df[i])

(***************************************************************************)
(* The indicator engine: add_technical_indicators of src/indicators.py.    *)
(* Prices are whole numbers; an indicator value is kept in hundredths, as  *)
(* round(2) leaves it, or is null (NaN).  Rounding is to the nearest       *)
(* hundredth, halves to the even one; binary floating point is not         *)
(* modelled.  The MACD columns are kept by their definedness alone: their  *)
(* magnitudes need fractions of unbounded size.                            *)
(***************************************************************************)
Null == [null |-> TRUE, x |-> 0]
Defined(x) == [null |-> FALSE, x |-> x]
Computed == [null |-> FALSE]

RoundPick(q, twice_r, d) ==
    IF twice_r < d THEN q
    ELSE IF twice_r > d THEN q + 1
    ELSE IF q % 2 = 0 THEN q ELSE q + 1

\* n / d rounded to the nearest integer, for n >= 0 and d > 0
RoundHalfEven(n, d) == RoundPick(n \div d, 2 * (n % d), d)

RECURSIVE SumRange(_, _, _)
SumRange(xs, a, b) == IF a > b THEN 0 ELSE xs[b] + SumRange(xs, a, b - 1)

RECURSIVE SumSquares(_, _, _)
SumSquares(xs, a, b) == IF a > b THEN 0 ELSE xs[b] * xs[b] + SumSquares(xs, a, b - 1)

\* the mean over the rows at hand when the window is not yet full
RollingMean_Expanding(xs, window) ==
    [i \in 1 .. Len(xs) |->
        IF i < window THEN Defined(RoundHalfEven(100 * SumRange(xs, 1, i), i))
        ELSE Defined(RoundHalfEven(100 * SumRange(xs, i - window + 1, i), window))]

\* pd.Series(prices).rolling(window=period).mean().round(2)
RollingMean(xs, window) ==
    [i \in 1 .. Len(xs) |->
        IF i < window THEN Null
        ELSE Defined(RoundHalfEven(100 * SumRange(xs, i - window + 1, i), window))]

calculate_ma(prices, window) == RollingMean(prices, window)

Min2(a, b) == IF a <= b THEN a ELSE b
Max2(a, b) == IF a >= b THEN a ELSE b

RECURSIVE RangeMin(_, _, _)
RangeMin(xs, a, b) == IF a = b THEN xs[a] ELSE Min2(xs[b], RangeMin(xs, a, b - 1))

RECURSIVE RangeMax(_, _, _)
RangeMax(xs, a, b) == IF a = b THEN xs[a] ELSE Max2(xs[b], RangeMax(xs, a, b - 1))

\* the sample standard deviation of a window in hundredths: the r nearest to
\* 100 * sqrt(q / nn), where q = n * sum(x^2) - sum(x)^2 and nn = n * (n - 1);
\* it is at most the window's range
NearestRoot(q, nn, range) ==
    CHOOSE r \in 0 .. (100 * range) :
        /\ (r = 0 \/ (2 * r - 1) * (2 * r - 1) * nn <= 40000 * q)
        /\ 40000 * q < (2 * r + 1) * (2 * r + 1) * nn

WindowSpread(sum, squares, window) == window * squares - sum * sum

StdOver(xs, a, b) ==
    NearestRoot(WindowSpread(SumRange(xs, a, b), SumSquares(xs, a, b), b - a + 1),
                (b - a + 1) * (b - a),
                RangeMax(xs, a, b) - RangeMin(xs, a, b))

\* pd.Series(prices).rolling(window=period).std().round(2)
RollingStd(xs, window) ==
    [i \in 1 .. Len(xs) |->
        IF i < window THEN Null ELSE Defined(StdOver(xs, i - window + 1, i))]

\* (mid + k * std).round(2), null where either is
Band(mid, std, k) ==
    [i \in 1 .. Len(mid) |->
        IF mid[i].null \/ std[i].null THEN Null ELSE Defined(mid[i].x + k * std[i].x)]

calculate_boll(prices, window, k) ==
    [mid |-> RollingMean(prices, window),
     up |-> Band(RollingMean(prices, window), RollingStd(prices, window), k),
     down |-> Band(RollingMean(prices, window), RollingStd(prices, window), 0 - k)]

\* series.ewm(span=..., adjust=False).mean(): seeded with the first value, so
\* defined from the first row on
Ewm(definedness) ==
    [i \in 1 .. Len(definedness) |->
        IF \E j \in 1 .. i : ~definedness[j].null THEN Computed ELSE [null |-> TRUE]]

\* ema_fast - ema_slow, its ewm signal, and their difference
calculate_macd(prices) ==
    [macd |-> Ewm([i \in 1 .. Len(prices) |-> Computed]),
     signal |-> Ewm(Ewm([i \in 1 .. Len(prices) |-> Computed])),
     histogram |-> Ewm(Ewm([i \in 1 .. Len(prices) |-> Computed]))]

\* delta.where(delta > 0, 0): the first row's delta is NaN and becomes 0
Gains(prices) ==
    [i \in 1 .. Len(prices) |->
        IF i > 1 /\ prices[i] > prices[i - 1] THEN prices[i] - prices[i - 1] ELSE 0]

\* -delta.where(delta < 0, 0)
Losses(prices) ==
    [i \in 1 .. Len(prices) |->
        IF i > 1 /\ prices[i] < prices[i - 1] THEN prices[i - 1] - prices[i] ELSE 0]

\* loss.replace(to_replace=0, method='ffill'): a zero takes the last value that
\* is not a zero, were it NaN; a zero on the first row stays
RECURSIVE Pad(_, _)
Pad(series, i) ==
    IF i = 1 THEN series[1]
    ELSE IF ~series[i].null /\ series[i].x = 0 THEN Pad(series, i - 1)
    ELSE series[i]

\* the rolling loss taken as it is, zeros kept
ReplaceZeroFfill_KeepsZero(series) == [i \in 1 .. Len(series) |-> series[i]]
ReplaceZeroFfill(series) == [i \in 1 .. Len(series) |-> Pad(series, i)]

\* (100 - 100 / (1 + gain / loss)).round(2) = 100 * gain / (gain + loss)
RsiOf(gain, loss) ==
    IF gain.null \/ loss.null THEN Null
    ELSE IF loss.x = 0 THEN (IF gain.x = 0 THEN Null ELSE Defined(10000))
    ELSE Defined(RoundHalfEven(10000 * gain.x, gain.x + loss.x))

RsiSeries(gain, loss) == [i \in 1 .. Len(gain) |-> RsiOf(gain[i], loss[i])]

calculate_rsi(prices, window) ==
    RsiSeries(RollingMean(Gains(prices), window),
              ReplaceZeroFfill(RollingMean(Losses(prices), window)))

\* (close - period_low) / (period_high - period_low) * 100, or 100 on a flat window
RsvOf(close, period_low, period_high) ==
    IF period_high # period_low
    THEN [num |-> 100 * (close - period_low), den |-> period_high - period_low]
    ELSE [num |-> 100, den |-> 1]

\* rsv = pd.Series(0.0, ...); for i in range(n - 1, len(close)): rsv[i] = ...
Rsv(high, low, close, n) ==
    [i \in 1 .. Len(close) |->
        IF i < n THEN [num |-> 0, den |-> 1]
        ELSE RsvOf(close[i], RangeMin(low, i - n + 1, i), RangeMax(high, i - n + 1, i))]

\* (2/3 * k[i-1] + 1/3 * rsv[i]).round(2), in hundredths
KStep(k_prev, rsv) == RoundHalfEven(2 * k_prev * rsv.den + 100 * rsv.num, 3 * rsv.den)

\* (2/3 * d[i-1] + 1/3 * k[i]).round(2)
DStep(d_prev, k) == RoundHalfEven(2 * d_prev + k, 3)

KAppend(ks, rsv) == Append(ks, KStep(ks[Len(ks)], rsv))

\* k = pd.Series(50.0, ...); for i in range(1, len(close)): k[i] = ...
RECURSIVE KUpTo(_, _)
KUpTo(rsv, i) == IF i = 1 THEN <<5000>> ELSE KAppend(KUpTo(rsv, i - 1), rsv[i])

DAppend(ds, k) == Append(ds, DStep(ds[Len(ds)], k))

RECURSIVE DUpTo(_, _)
DUpTo(ks, i) == IF i = 1 THEN <<5000>> ELSE DAppend(DUpTo(ks, i - 1), ks[i])

\* j[0] = 50.0; j[i] = (3 * k[i] - 2 * d[i]).round(2)
JOf(ks, ds) == [i \in 1 .. Len(ks) |-> IF i = 1 THEN 5000 ELSE 3 * ks[i] - 2 * ds[i]]

AllDefined(xs) == [i \in 1 .. Len(xs) |-> Defined(xs[i])]

KdjOf(ks, ds) == [k |-> AllDefined(ks), d |-> AllDefined(ds), j |-> AllDefined(JOf(ks, ds))]

KdjFrom(rsv) == KdjOf(KUpTo(rsv, Len(rsv)), DUpTo(KUpTo(rsv, Len(rsv)), Len(rsv)))

calculate_kdj(high, low, close, n) == KdjFrom(Rsv(high, low, close, n))

Column(frame, name) == [i \in 1 .. Len(frame) |-> frame[i][name]]

\* the enrichment with the rows given back newest first
Enriched_NewestFirst(frame, boll, macd, kdj) ==
    [i \in 1 .. Len(frame) |->
        frame[Len(frame) + 1 - i] @@
        [MA5 |-> calculate_ma(Column(frame, "c"), 5)[i],
         MA10 |-> calculate_ma(Column(frame, "c"), 10)[i],
         MA20 |-> calculate_ma(Column(frame, "c"), 20)[i],
         BOLL_MID |-> boll.mid[i], BOLL_UP |-> boll.up[i], BOLL_DOWN |-> boll.down[i],
         MACD |-> macd.macd[i], MACD_SIGNAL |-> macd.signal[i],
         MACD_HIST |-> macd.histogram[i],
         RSI |-> calculate_rsi(Column(frame, "c"), 14)[i],
         K |-> kdj.k[i], D |-> kdj.d[i], J |-> kdj.j[i]]]

\* df['MA5'] = ...; ...; df['J'] = kdj['j']
Enriched(frame, boll, macd, kdj) ==
    [i \in 1 .. Len(frame) |->
        frame[i] @@
        [MA5 |-> calculate_ma(Column(frame, "c"), 5)[i],
         MA10 |-> calculate_ma(Column(frame, "c"), 10)[i],
         MA20 |-> calculate_ma(Column(frame, "c"), 20)[i],
         BOLL_MID |-> boll.mid[i], BOLL_UP |-> boll.up[i], BOLL_DOWN |-> boll.down[i],
         MACD |-> macd.macd[i], MACD_SIGNAL |-> macd.signal[i],
         MACD_HIST |-> macd.histogram[i],
         RSI |-> calculate_rsi(Column(frame, "c"), 14)[i],
         K |-> kdj.k[i], D |-> kdj.d[i], J |-> kdj.j[i]]]

\* df = pd.DataFrame(data); prices = df[price_col].values: an empty list makes
\* a frame without columns
add_technical_indicators(frame) ==
    IF frame = <<>> THEN Raise("KeyError")
    ELSE Ok(Enriched(frame,
                     calculate_boll(Column(frame, "c"), 20, 2),
                     calculate_macd(Column(frame, "c")),
                     calculate_kdj(Column(frame, "h"), Column(frame, "l"),
                                   Column(frame, "c"), 9)))

(***************************************************************************)
(* caculate_ta of src/src/ta.py: the columns TA-Lib adds.  TA-Lib is not   *)
(* part of the repository; each of its functions is kept by the number of  *)
(* leading rows it leaves NaN for the parameters the code passes.          *)
(***************************************************************************)
TALIB_LOOKBACK ==
    [RSI |-> 14, MA5 |-> 4, MA20 |-> 19, EMA5 |-> 4, EMA20 |-> 19,
     DIF |-> 33, DEM |-> 33, HISTOGRAM |-> 33,
     BBUP |-> 19, BBMID |-> 19, BBLOW |-> 19,
     MOM |-> 10, ROC |-> 12, ATR |-> 14, SAR |-> 1, WILLR |-> 13, OBV |-> 0]

TalibCell(i, lookback) == IF i <= lookback THEN [null |-> TRUE] ELSE Computed

\* df = df.copy(); df['RSI'] = ta.RSI(...); ...; return df
caculate_ta(frame) ==
    Ok([i \in 1 .. Len(frame) |->
          frame[i] @@ [name \in DOMAIN TALIB_LOOKBACK |-> TalibCell(i, TALIB_LOOKBACK[name])]])

(***************************************************************************)
(* Inputs of the indicator engine: daily series of 1 to MaxSeries bars     *)
(* that are flat (high = low), rising, falling, alternating, rising to a   *)
(* pivot bar and falling after it, or falling to it and rising after it.   *)
(***************************************************************************)
MaxSeries == 21

SeriesKinds == {"flat", "up", "down", "zig", "peak", "valley"}

CloseOf(kind, pivot, i) ==
    CASE kind = "flat" -> 10
      [] kind = "up" -> 10 + i
      [] kind = "down" -> 40 - i
      [] kind = "zig" -> 10 + (i % 2)
      [] kind = "peak" -> 30 + (IF i <= pivot THEN i ELSE 2 * pivot - i)
      [] kind = "valley" -> 30 - (IF i <= pivot THEN i ELSE 2 * pivot - i)

ShapeAround(kind, close) ==
    IF kind = "flat" THEN [o |-> close, h |-> close, l |-> close, c |-> close, v |-> 100]
    ELSE [o |-> close, h |-> close + 1, l |-> close - 1, c |-> close, v |-> 100]

DailySeries(n, kind, pivot) ==
    [i \in 1 .. n |-> Bar(Stamp(BaseDay + i - 1, 0, 0), ShapeAround(kind, CloseOf(kind, pivot, i)))]

PivotsOf(n, kind) == IF kind \in {"peak", "valley"} THEN 2 .. (n - 1) ELSE {1}

IndicatorSeries ==
    UNION {UNION {{DailySeries(n, kind, pivot) : pivot \in PivotsOf(n, kind)}
                  : kind \in SeriesKinds}
           : n \in 1 .. MaxSeries}

InitInd ==
    /\ df \in IndicatorSeries
    /\ period = "d"
    /\ trading_periods = HK_HOURS
    /\ market = <<"h", "k">>
    /\ data = NoData
    /\ out = NoCall

EnrichIndicators ==
    /\ out.impl = "none"
    /\ out' = Called("Indicators", add_technical_indicators(df))
    /\ UNCHANGED <<df, period, trading_periods, market, data>>

EnrichTa ==
    /\ out.impl = "none"
    /\ out' = Called("Ta", caculate_ta(df))
    /\ UNCHANGED <<df, period, trading_periods, market, data>>

NextInd == EnrichIndicators \/ EnrichTa
SpecInd == InitInd /\ [][NextInd]_vars

(***************************************************************************)
(* Claims about the indicator engine.                                      *)
(***************************************************************************)
Enrichment == out.impl \in {"Indicators", "Ta"} /\ df # <<>>

HasValue(row, name) == name \in DOMAIN row /\ ~row[name].null

IsNull(row, name) == name \in DOMAIN row /\ row[name].null

\* C17: every enriched row has K, D and J, all three 50 on the first row, while
\* MA5, MA10, MA20 and RSI are null on the first 4, 9, 19 and 13 rows
C17_KdjEveryRowAveragesLag ==
    Enrichment =>
        /\ out.status = "ok"
        /\ \A i \in 1 .. Len(out.rows) :
              /\ \A name \in {"K", "D", "J"} : HasValue(out.rows[i], name)
              /\ i <= 4 => IsNull(out.rows[i], "MA5")
              /\ i <= 9 => IsNull(out.rows[i], "MA10")
              /\ i <= 19 => IsNull(out.rows[i], "MA20")
              /\ i <= 13 => IsNull(out.rows[i], "RSI")
        /\ \A name \in {"K", "D", "J"} :
              Len(out.rows) >= 1 /\ HasValue(out.rows[1], name) /\ out.rows[1][name].x = 5000

BarColumns == {"t", "o", "h", "l", "c", "v"}

\* C18: the enriched series has one row per input bar, in the input's order,
\* each with the bar's timestamp, open, high, low, close and volume; the
\* engine only adds columns
C18_EnrichmentKeepsBars ==
    Enrichment =>
        /\ out.status = "ok"
        /\ Len(out.rows) = Len(df)
        /\ \A i \in 1 .. Len(df) :
              /\ BarColumns \subseteq DOMAIN out.rows[i]
              /\ \A name \in BarColumns : out.rows[i][name] = df[i][name]

\* both engines have enriched a series of several different bars
C18_Witness ==
    /\ Enrichment
    /\ Len(df) >= 10
    /\ \A i, j \in 1 .. Len(df) : i # j => df[i] # df[j]
    /\ \E i \in 1 .. Len(out.rows) : DOMAIN out.rows[i] # BarColumns

\* the columns of the MACD line, its signal and their histogram
MacdColumns(impl) ==
    IF impl = "Ta" THEN {"DIF", "DEM", "HISTOGRAM"} ELSE {"MACD", "MACD_SIGNAL", "MACD_HIST"}

\* C19: the MACD line, its signal and the histogram are non-null on every row
\* of the enriched series, from the first bar on
C19_MacdFromFirstBar ==
    Enrichment =>
        /\ out.status = "ok"
        /\ \A i \in 1 .. Len(out.rows) :
              \A name \in MacdColumns(out.impl) : HasValue(out.rows[i], name)

ShortSeries == out.impl = "Indicators" /\ df # <<>>

\* the columns whose window of `window` rows is not full on row i are null there
WindowedNull(row, i) ==
    /\ i < 5 => IsNull(row, "MA5")
    /\ i < 10 => IsNull(row, "MA10")
    /\ i < 20 => \A name \in {"MA20", "BOLL_MID", "BOLL_UP", "BOLL_DOWN"} : IsNull(row, name)
    /\ i < 14 => IsNull(row, "RSI")

\* C20 as stated: on a series shorter than a look-back window the computation
\* does not raise and the affected rows are undefined: K, D and J on a series of
\* fewer than 9 bars, RSI on one of fewer than 14, the averages below their windows
C20_ShortSeriesLeftUndefined ==
    ShortSeries =>
        /\ out.status = "ok"
        /\ \A i \in 1 .. Len(out.rows) :
              /\ WindowedNull(out.rows[i], i)
              /\ Len(df) < 9 => \A name \in {"K", "D", "J"} : IsNull(out.rows[i], name)

\* C20, amended: on a series of 1 to MaxSeries bars the computation does not
\* raise; the moving averages, the bands and RSI are null on the rows whose
\* window is not full, while K, D, J and the MACD columns are numbers on every
\* row, also on a series of fewer than 9 bars
C20_ShortSeriesNeverRaises ==
    ShortSeries =>
        /\ out.status = "ok"
        /\ Len(out.rows) = Len(df)
        /\ \A i \in 1 .. Len(out.rows) :
              /\ WindowedNull(out.rows[i], i)
              /\ \A name \in {"K", "D", "J", "MACD", "MACD_SIGNAL", "MACD_HIST"} :
                    HasValue(out.rows[i], name)

\* a series of fewer than 9 bars was enriched, and K has left its seed
C20_Witness ==
    /\ ShortSeries
    /\ Len(df) < 9
    /\ out.status = "ok"
    /\ \E i \in 1 .. Len(out.rows) : out.rows[i].K.x # 5000 /\ out.rows[i].MA5.null

(***************************************************************************)
(* Frame effects.                                                          *)
(***************************************************************************)
\* C21: a call of resample_with_trading_hours, resample_df,
\* add_technical_indicators or caculate_ta, returning normally or raising,
\* leaves the caller's input series as it was: same columns, values and order
C21_InputNotModified ==
    [][(out.impl = "none" /\ out'.impl \in {"Thx", "ThxHelper", "Ta", "Legacy", "Indicators"})
        => df' = df]_vars

(***************************************************************************)
(* The all-history builders on payloads with every kind of price factor    *)
(* and with a repeated date fragment.                                      *)
(***************************************************************************)
\* the text "1000", a number 0, and the numbers 1000 and 100
TEXT_FACTOR == Text(Decimal(1000))
ZERO_FACTOR == Num(Frac(0, 1))
InvalidFactors == {TEXT_FACTOR, ZERO_FACTOR}
ValidFactors == {Num(Frac(1000, 1)), Num(Frac(100, 1))}
FactorValues == {Absent} \cup InvalidFactors \cup ValidFactors

\* "0101,0101": the same day twice
REPEATED_DATES == Join(<<DateFragment(1), DateFragment(1)>>, ",")

FactorSortYears == {<< <<FirstYear, 2>>, <<FirstYear + 1, 1>> >>, << <<FirstYear, 1>> >>}

FactorPrices ==
    {Join(PriceTokens(n, {}, FALSE), ",") : n \in 0 .. MaxGroups}
    \cup {Join(PriceTokens(MaxGroups, {1}, FALSE), ",")}

FactorPayloads ==
    {AllPayload(x[1], x[2], x[3], x[4], x[5])
     : x \in (DatesTexts \cup {REPEATED_DATES}) \X FactorSortYears \X FactorPrices
             \X VolumnTexts \X FactorValues}

InitFactor ==
    /\ df = NoFrame
    /\ period = "d"
    /\ trading_periods = HK_HOURS
    /\ market = <<"h", "k">>
    /\ data \in FactorPayloads
    /\ out = NoCall

ProcessAllThx ==
    /\ out.impl = "none"
    /\ out' = Called("Thx", process_stock_data_all_Thx(data))
    /\ UNCHANGED <<df, period, trading_periods, market, data>>

ProcessAllThxHelper ==
    /\ out.impl = "none"
    /\ out' = Called("ThxHelper", process_stock_data_all_ThxHelper(data))
    /\ UNCHANGED <<df, period, trading_periods, market, data>>

NextFactor == ProcessAllThx \/ ProcessAllThxHelper \/ ProcessAllTool \/ ProcessAllLegacy
SpecFactor == InitFactor /\ [][NextFactor]_vars

WithFactor(d, factor) == [d EXCEPT !.keys = @ \cup {"priceFactor"}, !.priceFactor = factor]

\* what the builder that made `out` returns for payload d
SameBuilder(d) ==
    IF out.impl = "Thx" THEN process_stock_data_all_Thx(d)
    ELSE process_stock_data_all_ThxHelper(d)

\* the low of bar i is the first token of price group i over the factor
LowOver(i, factor) ==
    out.rows[i].l = FracDiv(Float(GroupAt(i)[1]).val, Frac(factor.num, factor.den))

\* C22: process_stock_data_all has one default price factor: a payload without
\* priceFactor gives the bars the same payload gives with an invalid priceFactor
\* (a text, a number that is not positive); a valid factor divides as given
C22_OneDefaultFactor ==
    AllCall({"Thx", "ThxHelper"}) =>
        /\ "priceFactor" \notin data.keys =>
              \A bad \in InvalidFactors : SameBuilder(WithFactor(data, bad)).rows = out.rows
        /\ ("priceFactor" \in data.keys /\ data.priceFactor \in ValidFactors
                /\ GoodGroups = 1 .. GroupCount) =>
              \A i \in 1 .. Len(out.rows) : LowOver(i, data.priceFactor)

(***************************************************************************)
(* The calendar of resample_df.                                            *)
(***************************************************************************)
\* the calendars of the two markets: Hong Kong 09:30-12:00 and 13:00-16:10,
\* Mainland 09:30-11:30 and 13:00-15:00
StatedHours(mkt) == IF StartsWith(mkt, <<"h", "k">>) THEN HK_HOURS ELSE MAINLAND_HOURS

\* the series resampled window by window against the calendar `hours`
ByCalendar(frame, freq, hours) == IntradayResample(Prepare(frame), freq, LenientRanges(hours))

\* C23: resample_df, given no calendar, resamples a minute period against the
\* calendar of the market: 09:30-12:00 and 13:00-16:10 for a Hong Kong market,
\* 09:30-11:30 and 13:00-15:00 for every other one
C23_CalendarFromMarket ==
    (out.impl = "Ta" /\ df # <<>> /\ Lower(period) \in {"5m", "15m", "20m", "30m"}) =>
        /\ LenientRanges(MarketHours(market)) = LenientRanges(StatedHours(market))
        /\ out.status = "ok"
        /\ RowsOf(out) = RowsOf(ByCalendar(df, PERIOD_MAP_Ta[Lower(period)], StatedHours(market)))

(***************************************************************************)
(* More claims about the builders.                                         *)
(***************************************************************************)
\* C24: every bar a builder of src/src/thx/thx_helper.py emits carries a
\* number that is not negative as its volume, never a text token
C24_VolumeIsNumber ==
    (out.impl = "Tool" /\ out.status = "ok") =>
        \A i \in 1 .. Len(out.rows) :
            out.rows[i].v.type = "float" /\ out.rows[i].v.num >= 0

(***************************************************************************)
(* The denominator of RSI.                                                 *)
(***************************************************************************)
RollingGain == RollingMean(Gains(Column(df, "c")), 14)
RollingLoss == RollingMean(Losses(Column(df, "c")), 14)

ZeroLoss(i) == ~RollingLoss[i].null /\ RollingLoss[i].x = 0

\* the bars before bar i whose rolling average loss is a number other than zero
NonZeroBefore(i) == {j \in 1 .. (i - 1) : ~RollingLoss[j].null /\ RollingLoss[j].x # 0}

Latest(S) == CHOOSE j \in S : \A k \in S : k <= j

\* RSI of bar i is computed with the rolling loss of bar j as its denominator
DenominatorFrom(i, j) ==
    /\ ~out.rows[i].RSI.null
    /\ out.rows[i].RSI.x =
          RoundHalfEven(10000 * RollingGain[i].x, RollingGain[i].x + RollingLoss[j].x)

\* C25 as stated: whenever the rolling average loss of a bar is exactly zero,
\* the denominator of its RSI is the last earlier rolling average loss that is
\* not zero
C25_ZeroLossCarriesForward ==
    ShortSeries =>
        \A i \in 1 .. Len(out.rows) :
            ZeroLoss(i) => (NonZeroBefore(i) # {} /\ DenominatorFrom(i, Latest(NonZeroBefore(i))))

\* C25, amended: a bar whose rolling average loss is exactly zero takes the last
\* earlier non-zero rolling average loss as denominator if there is one, and
\* has an undefined RSI if there is none; no RSI comes from a zero denominator
C25_ZeroLossCarriesOrUndefined ==
    ShortSeries =>
        \A i \in 1 .. Len(out.rows) :
            ZeroLoss(i) =>
                IF NonZeroBefore(i) # {} THEN DenominatorFrom(i, Latest(NonZeroBefore(i)))
                ELSE out.rows[i].RSI.null

\* a bar with a zero rolling loss has its RSI from the loss of a bar two or more
\* rows before it
C25_Witness ==
    /\ ShortSeries
    /\ \E i \in 1 .. Len(out.rows) :
          /\ ZeroLoss(i)
          /\ NonZeroBefore(i) # {}
          /\ Latest(NonZeroBefore(i)) < i - 1
          /\ ~out.rows[i].RSI.null

\* C26: the bars process_stock_data_all of src/src/thx/thx_helper.py returns are
\* in non-decreasing order of timestamp and no two of them have the same
\* timestamp, also when the payload repeats a date fragment
C26_NoDuplicateTimestamps ==
    (AllCall({"Tool"}) /\ out.status = "ok") =>
        /\ \A i \in 1 .. (Len(out.rows) - 1) :
              DigitsValue(out.rows[i].t) <= DigitsValue(out.rows[i + 1].t)
        /\ \A i, j \in 1 .. Len(out.rows) : i # j => out.rows[i].t # out.rows[j].t

\* the bar carries the date, the volume and the prices of source position p
FromPosition(bar, p) ==
    /\ p <= ExpectedDateCount /\ p <= Len(VolumesOf) /\ GroupOk(p)
    /\ bar.t = ExpectedDate(p)
    /\ VolumeIs(bar.v, VolumesOf[p])
    /\ \E f \in {Frac(1, 1), Frac(100, 1), Frac(1000, 1)} :
          PriceRow(Float(GroupAt(p)[1]).val, Float(GroupAt(p)[2]).val,
                   Float(GroupAt(p)[3]).val, Float(GroupAt(p)[4]).val, f)
          = [o |-> bar.o, c |-> bar.c, h |-> bar.h, l |-> bar.l]

\* C27: every bar process_stock_data_all emits takes its prices from the price
\* group at the source position of its date and volume, also when an earlier
\* price group was malformed and skipped
C27_PricesAlignedWithDates ==
    (AllCall({"Tool", "Thx"}) /\ Len(PriceValues) % 4 = 0 /\ out.status = "ok") =>
        \A k \in 1 .. Len(out.rows) : \E p \in 1 .. GroupCount : FromPosition(out.rows[k], p)

(***************************************************************************)
(* Stock codes: ThxApi of src/src/thx/thx_tool.py and TxhApi of            *)
(* src/src/thx.py.  A code is the sequence of its characters.              *)
(***************************************************************************)
\* str.upper() on the letters of the codes of the model
UpperChar(ch) ==
    CASE ch = "h" -> "H" [] ch = "k" -> "K" [] ch = "s" -> "S" [] OTHER -> ch

Upper(text) == [i \in 1 .. Len(text) |-> UpperChar(text[i])]

HasUnderscore(code) == Find(code, "_") # 0

\* code[0] in ('0', '3', '6', '8') and len(code) == 6
MainlandShape(code) == code[1] \in {"0", "3", "6", "8"} /\ Len(code) = 6

\* ThxApi._normalize_stock_code, on code.upper().strip()
Normalize_Tool(code) ==
    IF HasUnderscore(code) THEN Return(code)
    ELSE IF StartsWith(code, <<"H", "K">>) THEN Return(<<"h", "k", "_">> \o code)
    ELSE IF MainlandShape(code) THEN Return(<<"h", "s", "_">> \o code)
    ELSE Raise("ValueError")

normalize_stock_code_Tool(code) == Normalize_Tool(Strip(Upper(code)))

\* TxhApi._normalize_stock_code, on code.upper().strip()
Normalize_Thx(code) ==
    IF StartsWith(code, <<"H", "K">>) THEN Return(<<"h", "k", "_">> \o code)
    ELSE IF MainlandShape(code) THEN Return(<<"h", "s", "_">> \o code)
    ELSE Return(code)

normalize_stock_code_Thx(code) == Normalize_Thx(Strip(Upper(code)))

\* self.makert, self.code = full_code.split('_')[0], full_code.split('_')[-1]
ApiOf(parts, full_code) ==
    [full_code |-> full_code, makert |-> parts[1], code |-> parts[Len(parts)]]

\* ThxApi.__init__
NewApi_Tool(normalized) ==
    IF normalized.status = "raise" THEN normalized
    ELSE Return(ApiOf(Split(normalized.rows[1], "_"), normalized.rows[1]))

\* TxhApi.__init__
NewApi_Thx(normalized) == Return([full_code |-> normalized.rows[1]])

\* ThxApi.news: the list it fetches
news(makert) ==
    IF StartsWith(makert, <<"h", "s">>) THEN "_get_stock_news_list_v1"
    ELSE IF StartsWith(makert, <<"h", "k">>) THEN "_get_stock_news_list_v2"
    ELSE "[]"

\* codes as callers write them: Hong Kong and Mainland codes, bare or with a
\* prefix in either case, with or without a blank around them, and codes of
\* neither market
HongKongBodies == {<<"H", "K", "2", "0", "1", "8">>, <<"h", "k", "2", "0", "1", "8">>,
                   <<"H", "K", "0", "7", "0", "0">>, <<"h", "k", "0", "7", "0", "0">>}
MainlandBodies == {Decimal(600000), Decimal(300750), Decimal(800001), Tail(Decimal(1000001))}
OtherBodies == {Decimal(100000), Decimal(60000)}

Prefixed(prefixes, bodies) == {x[1] \o x[2] : x \in prefixes \X bodies}

Padded(codes) == codes \cup {<<" ">> \o c : c \in codes} \cup {c \o <<" ">> : c \in codes}

StockCodes ==
    Padded(Prefixed({<<>>, <<"h", "k", "_">>, <<"H", "K", "_">>}, HongKongBodies)
           \cup Prefixed({<<>>, <<"h", "s", "_">>, <<"H", "S", "_">>}, MainlandBodies)
           \cup OtherBodies)

CodeGiven(text, normalized) == [kind |-> "code", text |-> text, normalized |-> normalized]

InitCode ==
    /\ df = NoFrame
    /\ period = "d"
    /\ trading_periods = NO_HOURS
    /\ market = <<>>
    /\ data \in {CodeGiven(text, FALSE) : text \in StockCodes}
    /\ out = NoCall

\* api = ThxApi(code)
NewThxApi ==
    /\ out.impl = "none"
    /\ out' = Called("Tool", NewApi_Tool(normalize_stock_code_Tool(data.text)))
    /\ market' = IF out'.status = "ok" THEN out'.rows[1].makert ELSE market
    /\ UNCHANGED <<df, period, trading_periods, data>>

\* api = TxhApi(code)
NewTxhApi ==
    /\ out.impl = "none"
    /\ out' = Called("Thx", NewApi_Thx(normalize_stock_code_Thx(data.text)))
    /\ UNCHANGED <<df, period, trading_periods, market, data>>

\* the caller takes the full code of the object to make another object
Renormalize ==
    /\ out.impl \in {"Tool", "Thx"}
    /\ out.status = "ok"
    /\ ~data.normalized
    /\ data' = CodeGiven(out.rows[1].full_code, TRUE)
    /\ out' = NoCall
    /\ market' = <<>>
    /\ UNCHANGED <<df, period, trading_periods>>

NextCode == NewThxApi \/ NewTxhApi \/ Renormalize
SpecCode == InitCode /\ [][NextCode]_vars

ApiMade(impls) == data.kind = "code" /\ out.impl \in impls /\ out.status = "ok"

\* the code as typed, in capitals and without the blanks around it
Typed == Strip(Upper(data.text))

\* the part of the code after its prefix
BodyOf(code) == Split(code, "_")[Len(Split(code, "_"))]

HongKongCode == StartsWith(BodyOf(Typed), <<"H", "K">>)
MainlandCode == MainlandShape(BodyOf(Typed))

\* C28: for every code ThxApi accepts the market is 'hk' for a Hong Kong code
\* and 'hs' for a Mainland code, with or without a prefix in the code given, the
\* full code of a Hong Kong code is 'hk_' and the code, news() and resample_df
\* take the Hong Kong branch for it, and a normalized code normalizes to itself
C28_MarketFromCode ==
    /\ (ApiMade({"Tool"}) /\ HongKongCode) =>
          /\ out.rows[1].makert = <<"h", "k">>
          /\ out.rows[1].full_code = <<"h", "k", "_">> \o BodyOf(Typed)
          /\ news(market) = "_get_stock_news_list_v2"
          /\ MarketHours(market) = HK_HOURS
    /\ (ApiMade({"Tool"}) /\ MainlandCode) => out.rows[1].makert = <<"h", "s">>
    /\ (ApiMade({"Tool", "Thx"}) /\ data.normalized) => out.rows[1].full_code = data.text

(***************************************************************************)
(* The legacy all-history builder against the current one.                 *)
(***************************************************************************)
\* the payload's price factor is 1000, given or by default of src/src/thx.py
FactorThousand == "priceFactor" \notin data.keys \/ data.priceFactor = Num(Frac(1000, 1))

SameResult(r, q) == r.status = q.status /\ r.rows = q.rows

\* C29: on a payload of well-formed price groups with price factor 1000 the
\* builder of src/thx.py and the builder of src/src/thx.py return the same
\* bars, also when dates, price groups and volumes differ in number
C29_LegacyEqualsCurrent ==
    (AllCall({"Legacy", "Thx"}) /\ Len(PriceValues) % 4 = 0
        /\ GoodGroups = 1 .. GroupCount /\ FactorThousand)
    => /\ SameResult(out, process_stock_data_all_Legacy(data))
       /\ SameResult(out, process_stock_data_all_Thx(data))

(***************************************************************************)
(* A calendar with a malformed window.                                     *)
(***************************************************************************)
MalformedWindows(ws) == {i \in 1 .. Len(ws) : ~WellFormed(ws[i])}

\* C30: resample_with_trading_hours (src/src/thx.py) never resamples against a
\* partially parsed calendar: when a window of the trading-hours string is
\* malformed, an intraday resample fails or returns nothing, it produces no bar
\* from the remaining windows
C30_NoPartialCalendar ==
    (out.impl = "Thx" /\ df # <<>> /\ Lower(period) \in IntradayTokens
        /\ MalformedWindows(trading_periods) # {})
    => (out.status = "raise" \/ out.rows = <<>>)
====
